---- MODULE Spec2Model ----
(***************************************************************************)
(* A model of the in-memory RDBMS engine: cell values and their ordering,  *)
(* the order-4 B-tree index, the condition parser and the executor         *)
(* (CREATE / INSERT / SELECT / UPDATE / DELETE / DROP).                    *)
(*                                                                         *)
(* Conventions.  JS arrays are 0-based, TLA+ sequences 1-based: a row      *)
(* position p (as stored in posting lists) addresses rows[p + 1].  A cell  *)
(* value is a record [k, n, s]: k is the JS kind, n the number (or the     *)
(* boolean as 0/1), s the string as a sequence of one-character strings.   *)
(***************************************************************************)
EXTENDS Integers, Sequences, FiniteSets, TLC

\* tables, query and result are the engine: its catalog, the statement of the last
\* call of execute and what the call returned.  btreeIndex is a BTreeIndex that a
\* caller of the index module holds outside the engine.
VARIABLES tables, query, result, btreeIndex

vars == <<tables, query, result, btreeIndex>>

-----------------------------------------------------------------------------
(* Cell values (RowValue)                                                  *)

Null == [k |-> "null", n |-> 0, s |-> <<>>]
\* The JS value undefined (a row read under a key the row does not have).
Undefined == [k |-> "undefined", n |-> 0, s |-> <<>>]
IntV(i) == [k |-> "number", n |-> i, s |-> <<>>]
StrV(str) == [k |-> "string", n |-> 0, s |-> str]
BoolV(b) == [k |-> "boolean", n |-> IF b THEN 1 ELSE 0, s |-> <<>>]

\* The characters the model's strings are made of, in collation order
\* (digits sort before letters under localeCompare).
Alphabet == <<"0", "1", "2", "3", "4", "5", "6", "7", "8", "9",
              "a", "b", "c", "d", "e", "f", "g", "h", "i", "j", "k", "l", "m",
              "n", "o", "p", "q", "r", "s", "t", "u", "v", "w", "x", "y", "z">>

Rank(c) == CHOOSE i \in 1..Len(Alphabet) : Alphabet[i] = c

Digit(d) == Alphabet[d + 1]

RECURSIVE DecimalOf(_)
DecimalOf(i) == IF i < 10 THEN <<Digit(i)>>
                ELSE Append(DecimalOf(i \div 10), Digit(i % 10))

\* String(v) of a non-null value (non-negative numbers only).
String(v) == CASE v.k = "number" -> DecimalOf(v.n)
               [] v.k = "string" -> v.s
               [] v.k = "boolean" -> IF v.n = 1 THEN <<"t", "r", "u", "e">>
                                     ELSE <<"f", "a", "l", "s", "e">>
               [] v.k = "undefined" -> <<"u", "n", "d", "e", "f", "i", "n", "e", "d">>
               [] OTHER -> <<"n", "u", "l", "l">>

RECURSIVE localeCompare(_, _)
localeCompare(x, y) ==
    IF x = <<>> /\ y = <<>> THEN 0
    ELSE IF x = <<>> THEN -1
    ELSE IF y = <<>> THEN 1
    ELSE IF Rank(Head(x)) < Rank(Head(y)) THEN -1
    ELSE IF Rank(Head(x)) > Rank(Head(y)) THEN 1
    ELSE localeCompare(Tail(x), Tail(y))

\* An order in which a null is below every value, another null included (as in
\* SQL, where NULL is not equal to NULL).
compareValuesNullDistinct(a, b) ==
    IF a.k = "null" THEN -1
    ELSE IF b.k = "null" THEN 1
    ELSE IF a.k = "number" /\ b.k = "number" THEN a.n - b.n
    ELSE localeCompare(String(a), String(b))

compareValues(a, b) ==
    IF a.k = "null" /\ b.k = "null" THEN 0
    ELSE IF a.k = "null" THEN -1
    ELSE IF b.k = "null" THEN 1
    ELSE IF a.k = "number" /\ b.k = "number" THEN a.n - b.n
    ELSE localeCompare(String(a), String(b))

-----------------------------------------------------------------------------
(* Array helpers (0-based positions as in the source)                      *)

\* arr.splice(at, 0, x)
SpliceIn(arr, at, x) == SubSeq(arr, 1, at) \o <<x>> \o SubSeq(arr, at + 1, Len(arr))

\* arr.splice(at, 1)
SpliceOut(arr, at) == SubSeq(arr, 1, at) \o SubSeq(arr, at + 2, Len(arr))

\* arr.indexOf(x), -1 when absent
IndexOf(arr, x) ==
    IF \E j \in 1..Len(arr) : arr[j] = x
    THEN (CHOOSE j \in 1..Len(arr) : arr[j] = x /\ \A h \in 1..(j - 1) : arr[h] # x) - 1
    ELSE -1

Includes(arr, x) == \E j \in 1..Len(arr) : arr[j] = x

-----------------------------------------------------------------------------
(* B-tree index                                                            *)

ORDER == 4

createNode(isLeaf) == [keys |-> <<>>, rowIndices |-> <<>>, children |-> <<>>, isLeaf |-> isLeaf]

createBTreeIndex(columnName, unique) ==
    [columnName |-> columnName, root |-> createNode(TRUE), unique |-> unique]

\* The loop `while (i < keys.length && compareValues(value, keys[i]) > 0) i++`
\* from i on: where it stops.
RECURSIVE ScanUp(_, _, _)
ScanUp(keys, value, i) ==
    IF i < Len(keys) /\ compareValues(value, keys[i + 1]) > 0
    THEN ScanUp(keys, value, i + 1)
    ELSE i

\* The loop `while (i >= 0 && compareValues(value, keys[i]) < 0) i--` from i on.
RECURSIVE ScanDown(_, _, _)
ScanDown(keys, value, i) ==
    IF i >= 0 /\ compareValues(value, keys[i + 1]) < 0
    THEN ScanDown(keys, value, i - 1)
    ELSE i

RECURSIVE searchNode(_, _)

\* searchNode after its loop stopped at i
searchNodeAt(node, value, i) ==
    IF i < Len(node.keys) /\ compareValues(value, node.keys[i + 1]) = 0
    THEN node.rowIndices[i + 1]
    ELSE IF node.isLeaf THEN <<>>
    ELSE searchNode(node.children[i + 1], value)

searchNode(node, value) == searchNodeAt(node, value, ScanUp(node.keys, value, 0))

searchIndex(index, value) == searchNode(index.root, value)

splitChild(parent, childIndex) ==
    LET child == parent.children[childIndex + 1]
        mid == (ORDER - 1) \div 2
        newNode == [keys |-> SubSeq(child.keys, mid + 2, Len(child.keys)),
                    rowIndices |-> SubSeq(child.rowIndices, mid + 2, Len(child.rowIndices)),
                    children |-> IF ~child.isLeaf
                                 THEN SubSeq(child.children, mid + 2, Len(child.children))
                                 ELSE <<>>,
                    isLeaf |-> child.isLeaf]
        midKey == child.keys[mid + 1]
        midRowIndices == child.rowIndices[mid + 1]
        oldNode == [keys |-> SubSeq(child.keys, 1, mid),
                    rowIndices |-> SubSeq(child.rowIndices, 1, mid),
                    children |-> IF ~child.isLeaf
                                 THEN SubSeq(child.children, 1, mid + 1)
                                 ELSE child.children,
                    isLeaf |-> child.isLeaf]
    IN [parent EXCEPT
          !.keys = SpliceIn(parent.keys, childIndex, midKey),
          !.rowIndices = SpliceIn(parent.rowIndices, childIndex, midRowIndices),
          !.children = SpliceIn([parent.children EXCEPT ![childIndex + 1] = oldNode],
                                childIndex + 1, newNode)]

RECURSIVE insertNonFull(_, _, _)

\* The end of the non-leaf branch: node after the split (if any) of children[i],
\* `if (compareValues(value, node.keys[i]) > 0) i++` and the recursive call.
insertBelow(node, value, rowIndex, i, wasSplit) ==
    LET c == IF wasSplit /\ compareValues(value, node.keys[i + 1]) > 0 THEN i + 1 ELSE i
    IN [node EXCEPT !.children[c + 1] = insertNonFull(@, value, rowIndex)]

\* insertNonFull after its loop stopped at i
insertNonFullAt(node, value, rowIndex, i) ==
    IF node.isLeaf
    THEN IF i >= 0 /\ compareValues(value, node.keys[i + 1]) = 0
         THEN [node EXCEPT !.rowIndices[i + 1] = Append(@, rowIndex)]
         ELSE [node EXCEPT !.keys = SpliceIn(node.keys, i + 1, value),
                           !.rowIndices = SpliceIn(node.rowIndices, i + 1, <<rowIndex>>)]
    ELSE LET full == Len(node.children[i + 2].keys) = ORDER - 1
         IN insertBelow(IF full THEN splitChild(node, i + 1) ELSE node,
                        value, rowIndex, i + 1, full)

insertNonFull(node, value, rowIndex) ==
    insertNonFullAt(node, value, rowIndex, ScanDown(node.keys, value, Len(node.keys) - 1))

\* Returns [ok, index]: the boolean result and the index after the call.
insertIntoIndex(index, value, rowIndex) ==
    IF index.unique /\ Len(searchIndex(index, value)) > 0
    THEN [ok |-> FALSE, index |-> index]
    ELSE [ok |-> TRUE,
          index |-> [index EXCEPT !.root =
                        insertNonFull(IF Len(index.root.keys) = ORDER - 1
                                      THEN splitChild([createNode(FALSE) EXCEPT
                                                          !.children = <<index.root>>], 0)
                                      ELSE index.root,
                                      value, rowIndex)]]

RECURSIVE removeFromNode(_, _, _)

\* removeFromNode after its loop stopped at i
removeFromNodeAt(node, value, rowIndex, i) ==
    IF i < Len(node.keys) /\ compareValues(value, node.keys[i + 1]) = 0
    THEN LET idx == IndexOf(node.rowIndices[i + 1], rowIndex)
             list == IF idx # -1 THEN SpliceOut(node.rowIndices[i + 1], idx)
                     ELSE node.rowIndices[i + 1]
         IN IF Len(list) = 0
            THEN [node EXCEPT !.keys = SpliceOut(node.keys, i),
                              !.rowIndices = SpliceOut(node.rowIndices, i)]
            ELSE [node EXCEPT !.rowIndices[i + 1] = list]
    ELSE IF ~node.isLeaf
    THEN [node EXCEPT !.children[i + 1] = removeFromNode(@, value, rowIndex)]
    ELSE node

removeFromNode(node, value, rowIndex) ==
    removeFromNodeAt(node, value, rowIndex, ScanUp(node.keys, value, 0))

removeFromIndex(index, value, rowIndex) ==
    [index EXCEPT !.root = removeFromNode(index.root, value, rowIndex)]

\* rows: a sequence of [value, rowIndex]
RECURSIVE rebuildFrom(_, _)
rebuildFrom(index, rows) ==
    IF rows = <<>> THEN index
    ELSE rebuildFrom(insertIntoIndex(index, Head(rows).value, Head(rows).rowIndex).index,
                     Tail(rows))

rebuildIndex(index, rows) == rebuildFrom([index EXCEPT !.root = createNode(TRUE)], rows)

-----------------------------------------------------------------------------
(* Catalog: the Map<string, Table>, in insertion order                     *)

\* schema.primaryKey when no column is a primary key (undefined in the source)
NoPrimaryKey == ""

\* colDef.maxLength when the type carries no length (undefined in the source)
NoMaxLength == 0 - 1

HasTable(tbls, name) == \E j \in 1..Len(tbls) : tbls[j].schema.name = name

TableAt(tbls, name) == CHOOSE j \in 1..Len(tbls) : tbls[j].schema.name = name

GetTable(tbls, name) == tbls[TableAt(tbls, name)]

\* tables.set(name, table) for a name already present keeps its place
SetTable(tbls, table) ==
    IF HasTable(tbls, table.schema.name)
    THEN [tbls EXCEPT ![TableAt(tbls, table.schema.name)] = table]
    ELSE Append(tbls, table)

\* Array.from(this.tables.keys()): the keys in insertion order
getTableNames(tbls) == [j \in 1..Len(tbls) |-> tbls[j].schema.name]

\* this.tables.get(tableName)?.rows.length || 0
getTableRowCount(tbls, tableName) ==
    IF HasTable(tbls, tableName) /\ Len(GetTable(tbls, tableName).rows) # 0
    THEN Len(GetTable(tbls, tableName).rows)
    ELSE 0

HasColumn(schema, name) == \E j \in 1..Len(schema.columns) : schema.columns[j].name = name

\* schema.columns.find(c => c.name === name)
FindColumn(schema, name) ==
    schema.columns[CHOOSE j \in 1..Len(schema.columns) :
                       /\ schema.columns[j].name = name
                       /\ \A h \in 1..(j - 1) : schema.columns[h].name # name]

HasIndex(table, col) == \E j \in 1..Len(table.indexes) : table.indexes[j].columnName = col

IndexAt(table, col) == CHOOSE j \in 1..Len(table.indexes) : table.indexes[j].columnName = col

GetIndex(table, col) == table.indexes[IndexAt(table, col)]

\* row[key]
Cell(row, key) == IF key \in DOMAIN row THEN row[key] ELSE Undefined

\* row[key] = value
SetCell(row, key, value) == [c \in (DOMAIN row) \cup {key} |-> IF c = key THEN value ELSE row[c]]

EmptyRow == [c \in {} |-> Null]

Ok(rows, affected) == [success |-> TRUE, data |-> rows, affectedRows |-> affected, error |-> ""]

Fail(msg) == [success |-> FALSE, data |-> <<>>, affectedRows |-> 0 - 1, error |-> msg]

-----------------------------------------------------------------------------
(* CREATE TABLE                                                            *)

SelectNames(cols, Keep(_)) ==
    LET kept == SelectSeq(cols, Keep) IN [j \in 1..Len(kept) |-> kept[j].name]

\* A loop that stops after the first key: the primary key alone gets an index.
createIndexesFirstOnly(keys) ==
    IF keys = <<>> THEN <<>> ELSE <<createBTreeIndex(Head(keys), TRUE)>>

RECURSIVE createIndexes(_)
createIndexes(keys) ==
    IF keys = <<>> THEN <<>>
    ELSE LET rest == createIndexes(Tail(keys))
             new == createBTreeIndex(Head(keys), TRUE)
         IN \* indexes.set(key, ...) of a key already set replaces it in place
            IF \E j \in 1..Len(rest) : rest[j].columnName = Head(keys)
            THEN <<new>> \o SelectSeq(rest, LAMBDA x : x.columnName # Head(keys))
            ELSE <<new>> \o rest

\* A reading of createTable without lines 35-37: the new table is set under the
\* name whether or not the name is taken.
createTableReplacing(tbls, parsed) ==
    LET columns == parsed.columnDefs
        pks == SelectNames(columns, LAMBDA c : c.primaryKey)
        uniqueKeys == SelectNames(columns, LAMBDA c : c.unique \/ c.primaryKey)
        schema == [name |-> parsed.tableName, columns |-> columns,
                   primaryKey |-> IF pks = <<>> THEN NoPrimaryKey ELSE pks[1],
                   uniqueKeys |-> uniqueKeys]
    IN [tables |-> SetTable(tbls, [schema |-> schema, rows |-> <<>>,
                                   indexes |-> createIndexes(uniqueKeys), autoIncrement |-> 1]),
        result |-> Ok(<<>>, 0)]

createTable(tbls, parsed) ==
    IF HasTable(tbls, parsed.tableName)
    THEN [tables |-> tbls, result |-> Fail("Table already exists")]
    ELSE LET columns == parsed.columnDefs
             pks == SelectNames(columns, LAMBDA c : c.primaryKey)
             primaryKey == IF pks = <<>> THEN NoPrimaryKey ELSE pks[1]
             uniqueKeys == SelectNames(columns, LAMBDA c : c.unique \/ c.primaryKey)
             schema == [name |-> parsed.tableName, columns |-> columns,
                        primaryKey |-> primaryKey, uniqueKeys |-> uniqueKeys]
             table == [schema |-> schema, rows |-> <<>>,
                       indexes |-> createIndexes(uniqueKeys), autoIncrement |-> 1]
         IN [tables |-> SetTable(tbls, table), result |-> Ok(<<>>, 0)]

-----------------------------------------------------------------------------
(* Type validation                                                         *)

validateType(value, colDef) ==
    IF value.k = "null" THEN TRUE
    ELSE CASE colDef.type = "INT" -> value.k = "number"
           [] colDef.type = "VARCHAR" ->
                IF value.k # "string" THEN FALSE
                ELSE IF colDef.maxLength # NoMaxLength /\ colDef.maxLength # 0
                        /\ Len(value.s) > colDef.maxLength THEN FALSE
                ELSE TRUE
           [] colDef.type = "BOOLEAN" -> value.k = "boolean"
           [] colDef.type = "TIMESTAMP" -> value.k = "string"
           [] OTHER -> TRUE

-----------------------------------------------------------------------------
(* INSERT                                                                  *)

\* What the row-building loop does at column i (1-based): "ok" or the error.
BuildStep(schema, columns, values, i) ==
    IF ~HasColumn(schema, columns[i]) THEN "Column does not exist"
    ELSE LET colDef == FindColumn(schema, columns[i]) IN
         IF values[i].k # "null"
         THEN IF ~validateType(values[i], colDef) THEN "Invalid type for column" ELSE "ok"
         ELSE IF colDef.notNull THEN "Column cannot be NULL" ELSE "ok"

\* The row after the loop `row[columns[i]] = value` ran over all columns.
BuiltRow(columns, values) ==
    [c \in {columns[j] : j \in 1..Len(columns)} |->
        values[CHOOSE j \in 1..Len(columns) :
                   columns[j] = c /\ \A h \in (j + 1)..Len(columns) : columns[h] # c]]

\* The loop over schema.columns that fills the missing ones with null.
FilledRow(schema, row) ==
    [c \in (DOMAIN row) \cup {schema.columns[j].name : j \in 1..Len(schema.columns)} |->
        IF c \in DOMAIN row THEN row[c] ELSE Null]

\* The loop over table.indexes: stops at the first index that refuses the value,
\* keeping what the earlier indexes already took.
RECURSIVE insertIndexes(_, _, _, _)

\* `if (!insertIntoIndex(...)) return` with r what insertIntoIndex gave for index j
insertIndexesStep(indexes, j, row, rowIndex, r) ==
    IF ~r.ok THEN [ok |-> FALSE, indexes |-> indexes]
    ELSE insertIndexes([indexes EXCEPT ![j] = r.index], j + 1, row, rowIndex)

insertIndexes(indexes, j, row, rowIndex) ==
    IF j > Len(indexes) THEN [ok |-> TRUE, indexes |-> indexes]
    ELSE insertIndexesStep(indexes, j, row, rowIndex,
             insertIntoIndex(indexes[j], Cell(row, indexes[j].columnName), rowIndex))

\* Lines 117-120: the primary key is absent or null after the fill, and is an INT.
autoIncrements(schema, row) ==
    /\ \/ (schema.primaryKey # NoPrimaryKey /\ schema.primaryKey \notin DOMAIN row)
       \/ (schema.primaryKey # NoPrimaryKey /\ Cell(row, schema.primaryKey) = Null)
    /\ HasColumn(schema, schema.primaryKey)
    /\ FindColumn(schema, schema.primaryKey).type = "INT"

\* The end of insert, ins being what the index loop gave: a refusal returns with
\* the counter and the earlier indexes as they are by then.
insertDone(tbls, table, row, counter, ins) ==
    IF ~ins.ok
    THEN [tables |-> SetTable(tbls, [table EXCEPT !.indexes = ins.indexes,
                                                  !.autoIncrement = counter]),
          result |-> Fail("Duplicate value for unique column")]
    ELSE [tables |-> SetTable(tbls, [table EXCEPT !.indexes = ins.indexes,
                                                  !.autoIncrement = counter,
                                                  !.rows = Append(table.rows, row)]),
          result |-> Ok(<<>>, 1)]

\* insert from the index loop on, for the row to store and the counter's new value
insertRow(tbls, table, row, counter) ==
    insertDone(tbls, table, row, counter,
               insertIndexes(table.indexes, 1, row, Len(table.rows)))

\* A reading of line 121 without the increment: the row gets the counter's value
\* and the counter stays.
insertFilledNoIncrement(tbls, table, row, auto) ==
    insertRow(tbls, table,
              IF auto THEN SetCell(row, table.schema.primaryKey, IntV(table.autoIncrement))
              ELSE row,
              table.autoIncrement)

\* A reading of line 121 with ++autoIncrement: the row gets the counter's value
\* after the increment.
insertFilledPreIncrement(tbls, table, row, auto) ==
    insertRow(tbls, table,
              IF auto THEN SetCell(row, table.schema.primaryKey, IntV(table.autoIncrement + 1))
              ELSE row,
              IF auto THEN table.autoIncrement + 1 ELSE table.autoIncrement)

\* insert from the auto-increment step on, for the row with its missing columns filled
insertFilled(tbls, table, row, auto) ==
    insertRow(tbls, table,
              IF auto THEN SetCell(row, table.schema.primaryKey, IntV(table.autoIncrement))
              ELSE row,
              IF auto THEN table.autoIncrement + 1 ELSE table.autoIncrement)

\* An insert that takes the key from the counter before it looks for missing
\* NOT NULL columns: the statement it rejects for one has used up a key.
insertCountingFirst(tbls, parsed) ==
    IF ~HasTable(tbls, parsed.tableName)
    THEN [tables |-> tbls, result |-> Fail("Table does not exist")]
    ELSE
    LET table == GetTable(tbls, parsed.tableName)
        schema == table.schema
        columns == parsed.columns
        values == parsed.values
    IN
    IF Len(columns) # Len(values)
    THEN [tables |-> tbls, result |-> Fail("Column count does not match value count")]
    ELSE IF \E i \in 1..Len(columns) : BuildStep(schema, columns, values, i) # "ok"
    THEN LET i == CHOOSE i \in 1..Len(columns) :
                      /\ BuildStep(schema, columns, values, i) # "ok"
                      /\ \A h \in 1..(i - 1) : BuildStep(schema, columns, values, h) = "ok"
         IN [tables |-> tbls, result |-> Fail(BuildStep(schema, columns, values, i))]
    ELSE
    LET row0 == BuiltRow(columns, values) IN
    IF \E j \in 1..Len(schema.columns) :
          /\ schema.columns[j].name \notin DOMAIN row0
          /\ schema.columns[j].notNull /\ ~schema.columns[j].primaryKey
    THEN [tables |-> IF autoIncrements(schema, FilledRow(schema, row0))
                     THEN SetTable(tbls, [table EXCEPT !.autoIncrement = @ + 1])
                     ELSE tbls,
          result |-> Fail("Column cannot be NULL")]
    ELSE
    insertFilled(tbls, table, FilledRow(schema, row0),
                 autoIncrements(schema, FilledRow(schema, row0)))

insert(tbls, parsed) ==
    IF ~HasTable(tbls, parsed.tableName)
    THEN [tables |-> tbls, result |-> Fail("Table does not exist")]
    ELSE
    LET table == GetTable(tbls, parsed.tableName)
        schema == table.schema
        columns == parsed.columns
        values == parsed.values
    IN
    IF Len(columns) # Len(values)
    THEN [tables |-> tbls, result |-> Fail("Column count does not match value count")]
    ELSE IF \E i \in 1..Len(columns) : BuildStep(schema, columns, values, i) # "ok"
    THEN LET i == CHOOSE i \in 1..Len(columns) :
                      /\ BuildStep(schema, columns, values, i) # "ok"
                      /\ \A h \in 1..(i - 1) : BuildStep(schema, columns, values, h) = "ok"
         IN [tables |-> tbls, result |-> Fail(BuildStep(schema, columns, values, i))]
    ELSE
    LET row0 == BuiltRow(columns, values) IN
    IF \E j \in 1..Len(schema.columns) :
          /\ schema.columns[j].name \notin DOMAIN row0
          /\ schema.columns[j].notNull /\ ~schema.columns[j].primaryKey
    THEN [tables |-> tbls, result |-> Fail("Column cannot be NULL")]
    ELSE
    insertFilled(tbls, table, FilledRow(schema, row0),
                 autoIncrements(schema, FilledRow(schema, row0)))

-----------------------------------------------------------------------------
(* WHERE: parsing and evaluation                                           *)

\* A WHERE clause as written is [conds, ops]: the conditions c1 .. cn, each a
\* [column, operator, value] (what parseCondition yields), and the connectives
\* op1 .. op(n-1) written between them.  str.split(/\s+(AND|OR)\s+/i) yields
\* them interleaved: parts[2i] = c(i+1), parts[2i+1] = op(i+1).
NoLogicalOp == ""

parseConditions(where) ==
    [i \in 1..Len(where.conds) |->
        [column |-> where.conds[i].column,
         operator |-> where.conds[i].operator,
         value |-> where.conds[i].value,
         logicalOp |-> IF i <= Len(where.ops) THEN where.ops[i] ELSE NoLogicalOp]]

\* Number(str) for the model's strings: digits only, "" is 0, anything else NaN.
RECURSIVE DigitsValue(_, _)
DigitsValue(str, acc) ==
    IF str = <<>> THEN acc ELSE DigitsValue(Tail(str), 10 * acc + (Rank(Head(str)) - 1))

ToNumber(v) ==
    CASE v.k = "number" -> [nan |-> FALSE, n |-> v.n]
      [] v.k = "boolean" -> [nan |-> FALSE, n |-> v.n]
      [] v.k = "null" -> [nan |-> FALSE, n |-> 0]
      [] v.k = "string" ->
           IF \A j \in 1..Len(v.s) : Rank(v.s[j]) <= 10
           THEN [nan |-> FALSE, n |-> DigitsValue(v.s, 0)]
           ELSE [nan |-> TRUE, n |-> 0]
      [] OTHER -> [nan |-> TRUE, n |-> 0]

\* a < b of JS: two strings by code units (the alphabet's code-unit order is its
\* rank order), anything else as numbers.
JsLess(a, b) ==
    IF a.k = "string" /\ b.k = "string" THEN localeCompare(a.s, b.s) < 0
    ELSE ~ToNumber(a).nan /\ ~ToNumber(b).nan /\ ToNumber(a).n < ToNumber(b).n

JsLessEq(a, b) ==
    IF a.k = "string" /\ b.k = "string" THEN localeCompare(a.s, b.s) <= 0
    ELSE ~ToNumber(a).nan /\ ~ToNumber(b).nan /\ ToNumber(a).n <= ToNumber(b).n

\* The capital letters, in the order of their small letters in Alphabet.
Capitals == <<"A", "B", "C", "D", "E", "F", "G", "H", "I", "J", "K", "L", "M",
              "N", "O", "P", "Q", "R", "S", "T", "U", "V", "W", "X", "Y", "Z">>

\* The case folding of the regular expression flag 'i' on one character.
Folded(c) ==
    IF \E i \in 1..Len(Capitals) : Capitals[i] = c
    THEN Alphabet[Len(Alphabet) - Len(Capitals) + CHOOSE i \in 1..Len(Capitals) : Capitals[i] = c]
    ELSE c

\* new RegExp('^' + pattern + '$', 'i').test(str), pattern after % -> .* and _ -> .
\* (patterns of letters, digits, '%', '_' and '.'; a '.' the pattern holds stays
\* a '.' of the regular expression, which matches any one character)
RECURSIVE LikeMatch(_, _)
LikeMatch(str, pat) ==
    IF pat = <<>> THEN str = <<>>
    ELSE IF Head(pat) = "%"
    THEN \E j \in 0..Len(str) : LikeMatch(SubSeq(str, j + 1, Len(str)), Tail(pat))
    ELSE IF Head(pat) = "_" \/ Head(pat) = "."
    THEN str # <<>> /\ LikeMatch(Tail(str), Tail(pat))
    ELSE str # <<>> /\ Folded(Head(str)) = Folded(Head(pat)) /\ LikeMatch(Tail(str), Tail(pat))

evaluateCondition(row, condition) ==
    LET value == Cell(row, condition.column)
        compareValue == condition.value
    IN CASE condition.operator = "=" -> value = compareValue
         [] condition.operator = "!=" -> value # compareValue
         [] condition.operator = "<" ->
              value.k # "null" /\ compareValue.k # "null" /\ JsLess(value, compareValue)
         [] condition.operator = ">" ->
              value.k # "null" /\ compareValue.k # "null" /\ JsLess(compareValue, value)
         [] condition.operator = "<=" ->
              value.k # "null" /\ compareValue.k # "null" /\ JsLessEq(value, compareValue)
         [] condition.operator = ">=" ->
              value.k # "null" /\ compareValue.k # "null" /\ JsLessEq(compareValue, value)
         [] condition.operator = "LIKE" ->
              IF value.k # "string" \/ compareValue.k # "string" THEN FALSE
              ELSE LikeMatch(value.s, compareValue.s)
         [] OTHER -> FALSE

\* A different reading of line 264: the connective that follows condition i,
\* where the engine takes the one written before it.
PrevOpFollowing(conditions, i) ==
    IF conditions[i].logicalOp = NoLogicalOp THEN "AND" ELSE conditions[i].logicalOp

\* The connective the loop of evaluateConditions applies at condition i (1-based, i > 1).
PrevOp(conditions, i) ==
    IF conditions[i - 1].logicalOp = NoLogicalOp THEN "AND" ELSE conditions[i - 1].logicalOp

\* result = result && condResult, or result = result || condResult
connect(op, acc, condResult) ==
    IF op = "AND" THEN acc /\ condResult ELSE acc \/ condResult

RECURSIVE evalFrom(_, _, _, _)
evalFrom(row, conditions, i, acc) ==
    IF i > Len(conditions) THEN acc
    ELSE evalFrom(row, conditions, i + 1,
                  connect(PrevOp(conditions, i), acc, evaluateCondition(row, conditions[i])))

evaluateConditions(row, conditions) ==
    IF Len(conditions) = 0 THEN TRUE
    ELSE evalFrom(row, conditions, 2, evaluateCondition(row, conditions[1]))

\* rowIndices.map(i => table.rows[i]).filter(Boolean)
RowsAt(table, rowIndices) ==
    LET live == SelectSeq(rowIndices, LAMBDA p : p < Len(table.rows))
    IN [j \in 1..Len(live) |-> table.rows[live[j] + 1]]

\* The rows the filter loop runs on: the rows the first '=' condition's index
\* names when that column is indexed and the lookup finds something, else rows.
seedRows(rows, conditions, table) ==
    LET eqs == SelectSeq(conditions, LAMBDA c : c.operator = "=") IN
    IF eqs # <<>> /\ HasIndex(table, eqs[1].column)
    THEN LET rowIndices == searchIndex(GetIndex(table, eqs[1].column), eqs[1].value)
         IN IF Len(rowIndices) > 0 THEN RowsAt(table, rowIndices) ELSE rows
    ELSE rows

filterRows(rows, conditions, table) ==
    SelectSeq(seedRows(rows, conditions, table),
              LAMBDA row : evaluateConditions(row, conditions))

-----------------------------------------------------------------------------
(* SELECT: joins, ORDER BY, LIMIT, projection                              *)

\* The identifiers (table and column names) statements are written with.
Identifiers == {"t", "u", "id", "e", "k", "r", "zz"}

\* `${table}.${column}`
Qualified(table, column) == table \o "." \o column

\* name.split('.').pop() of a qualified name
LastPart(name) ==
    CHOOSE c \in Identifiers : \E tn \in Identifiers : name = Qualified(tn, c)

\* The prefixed copy of a base-table row that executeJoins starts from.
prefixedRow(table, row) ==
    [key \in (DOMAIN row) \cup {Qualified(table.schema.name, c) : c \in DOMAIN row} |->
        IF key \in DOMAIN row THEN row[key]
        ELSE row[CHOOSE c \in DOMAIN row : key = Qualified(table.schema.name, c)]]

\* { ...leftRow } plus the right row's cells under the joined table's prefix, and
\* unprefixed where the key is not taken yet.
combinedRow(leftRow, join, rightRow) ==
    LET prefixed == {Qualified(join.tableName, c) : c \in DOMAIN rightRow} IN
    [key \in (DOMAIN leftRow) \cup prefixed \cup (DOMAIN rightRow) |->
        IF key \in prefixed
        THEN rightRow[CHOOSE c \in DOMAIN rightRow : key = Qualified(join.tableName, c)]
        ELSE IF key \in DOMAIN leftRow THEN leftRow[key]
        ELSE rightRow[key]]

\* The LEFT JOIN fill: every joined_table.column set to null.
nullFilledRow(leftRow, join, joinTable) ==
    LET names == {Qualified(join.tableName, joinTable.schema.columns[j].name) :
                     j \in 1..Len(joinTable.schema.columns)} IN
    [key \in (DOMAIN leftRow) \cup names |-> IF key \in names THEN Null ELSE leftRow[key]]

\* A reading of the join loop without lines 226-234: every join is an INNER join.
joinLeftRowInner(leftRow, join, joinTable) ==
    LET leftValue == Cell(leftRow, join.on.leftColumn)
        rightCol == LastPart(join.on.rightColumn)
        hits == SelectSeq(joinTable.rows, LAMBDA rightRow : leftValue = Cell(rightRow, rightCol))
    IN [j \in 1..Len(hits) |-> combinedRow(leftRow, join, hits[j])]

\* The rows one left row contributes under one join.
joinLeftRow(leftRow, join, joinTable) ==
    LET leftValue == Cell(leftRow, join.on.leftColumn)
        rightCol == LastPart(join.on.rightColumn)
        hits == SelectSeq(joinTable.rows, LAMBDA rightRow : leftValue = Cell(rightRow, rightCol))
    IN IF hits = <<>> /\ join.type = "LEFT"
       THEN <<nullFilledRow(leftRow, join, joinTable)>>
       ELSE [j \in 1..Len(hits) |-> combinedRow(leftRow, join, hits[j])]

RECURSIVE joinRows(_, _, _)
joinRows(rows, join, joinTable) ==
    IF rows = <<>> THEN <<>>
    ELSE joinLeftRow(Head(rows), join, joinTable) \o joinRows(Tail(rows), join, joinTable)

\* Returns [threw, rows]: a join on a missing table throws.
RECURSIVE joinAll(_, _, _)
joinAll(tbls, rows, joins) ==
    IF joins = <<>> THEN [threw |-> FALSE, rows |-> rows]
    ELSE IF ~HasTable(tbls, Head(joins).tableName) THEN [threw |-> TRUE, rows |-> <<>>]
    ELSE joinAll(tbls, joinRows(rows, Head(joins), GetTable(tbls, Head(joins).tableName)),
                 Tail(joins))

executeJoins(tbls, table, joins) ==
    joinAll(tbls, [j \in 1..Len(table.rows) |-> prefixedRow(table, table.rows[j])], joins)

NoOrderBy == [column |-> "", direction |-> ""]

NoLimit == 0 - 1

\* A reading of lines 309-310 without the direction: a null sorts before a
\* non-null value under ASC and DESC alike.
sortCompareNullsFirst(a, b, orderBy) ==
    LET aVal == Cell(a, orderBy.column)
        bVal == Cell(b, orderBy.column)
        comparison == IF aVal.k = "number" /\ bVal.k = "number" THEN aVal.n - bVal.n
                      ELSE localeCompare(String(aVal), String(bVal))
    IN IF aVal.k = "null" /\ bVal.k = "null" THEN 0
       ELSE IF aVal.k = "null" THEN 0 - 1
       ELSE IF bVal.k = "null" THEN 1
       ELSE IF orderBy.direction = "ASC" THEN comparison ELSE 0 - comparison

\* The comparator of sortRows.
sortCompare(a, b, orderBy) ==
    LET aVal == Cell(a, orderBy.column)
        bVal == Cell(b, orderBy.column)
        comparison == IF aVal.k = "number" /\ bVal.k = "number" THEN aVal.n - bVal.n
                      ELSE localeCompare(String(aVal), String(bVal))
    IN IF aVal.k = "null" /\ bVal.k = "null" THEN 0
       ELSE IF aVal.k = "null" THEN (IF orderBy.direction = "ASC" THEN 0 - 1 ELSE 1)
       ELSE IF bVal.k = "null" THEN (IF orderBy.direction = "ASC" THEN 1 ELSE 0 - 1)
       ELSE IF orderBy.direction = "ASC" THEN comparison ELSE 0 - comparison

\* A sort that is not stable: x goes before the elements it compares equal to.
RECURSIVE sortedInsertBeforeEqual(_, _, _)
sortedInsertBeforeEqual(sorted, x, orderBy) ==
    IF sorted = <<>> THEN <<x>>
    ELSE IF sortCompare(sorted[Len(sorted)], x, orderBy) >= 0
    THEN Append(sortedInsertBeforeEqual(SubSeq(sorted, 1, Len(sorted) - 1), x, orderBy),
                sorted[Len(sorted)])
    ELSE Append(sorted, x)

\* Array.prototype.sort is stable: x goes after the last element that is not above it.
RECURSIVE sortedInsert(_, _, _)
sortedInsert(sorted, x, orderBy) ==
    IF sorted = <<>> THEN <<x>>
    ELSE IF sortCompare(sorted[Len(sorted)], x, orderBy) > 0
    THEN Append(sortedInsert(SubSeq(sorted, 1, Len(sorted) - 1), x, orderBy), sorted[Len(sorted)])
    ELSE Append(sorted, x)

RECURSIVE sortFrom(_, _, _)
sortFrom(sorted, rest, orderBy) ==
    IF rest = <<>> THEN sorted
    ELSE sortFrom(sortedInsert(sorted, Head(rest), orderBy), Tail(rest), orderBy)

sortRows(rows, orderBy) == sortFrom(<<>>, rows, orderBy)

\* The projection of one row on the requested columns.
projectRow(row, columns) ==
    [c \in {columns[j] : j \in 1..Len(columns)} \cap DOMAIN row |-> row[c]]

\* rows.slice(0, limit)
limitRows(rows, limit) ==
    IF limit # NoLimit
    THEN SubSeq(rows, 1, IF limit < Len(rows) THEN limit ELSE Len(rows))
    ELSE rows

\* rows.map(row => projected) unless the column list is ['*']
projectRows(rows, columns) ==
    IF columns[1] # "*" THEN [j \in 1..Len(rows) |-> projectRow(rows[j], columns)]
    ELSE rows

\* A reading of line 183 without the count.
selectedUncounted(tbls, rows) == [tables |-> tbls, result |-> Ok(rows, 0)]

\* { success: true, data: resultRows, affectedRows: resultRows.length }
selected(tbls, rows) == [tables |-> tbls, result |-> Ok(rows, Len(rows))]

\* if (parsed.conditions) resultRows = this.filterRows(...): a statement without
\* WHERE has no conditions, which the model writes <<>>
whereRows(rows, conditions, table) ==
    IF conditions # <<>> THEN filterRows(rows, conditions, table) ELSE rows

\* if (parsed.orderBy) resultRows = this.sortRows(...)
orderRows(rows, orderBy) ==
    IF orderBy # NoOrderBy THEN sortRows(rows, orderBy) ELSE rows

\* A reading of lines 160-167 with the LIMIT applied before the ORDER BY.
selectRowsLimitFirst(tbls, parsed, table, rows) ==
    selected(tbls,
             projectRows(orderRows(limitRows(whereRows(rows, parsed.conditions, table),
                                             parsed.limit),
                                   parsed.orderBy),
                         parsed.columns))

\* A reading of lines 152 and 304 without the copies: ORDER BY on the table's own
\* row array sorts the table.
selectRowsInPlace(tbls, parsed, table, rows) ==
    [tables |-> IF Len(parsed.joins) = 0 /\ parsed.conditions = <<>>
                   /\ parsed.orderBy # NoOrderBy
                THEN SetTable(tbls, [table EXCEPT !.rows = sortRows(rows, parsed.orderBy)])
                ELSE tbls,
     result |-> selected(tbls,
                         projectRows(limitRows(orderRows(whereRows(rows, parsed.conditions,
                                                                   table),
                                                         parsed.orderBy),
                                               parsed.limit),
                                     parsed.columns)).result]

\* select from the WHERE clause on, rows being the base rows or the joined rows.
selectRows(tbls, parsed, table, rows) ==
    selected(tbls,
             projectRows(limitRows(orderRows(whereRows(rows, parsed.conditions, table),
                                             parsed.orderBy),
                                   parsed.limit),
                         parsed.columns))

\* select after the joins ran: a join that threw is caught as a failure.
selectJoined(tbls, parsed, table, joined) ==
    IF joined.threw
    THEN [tables |-> tbls, result |-> Fail("Table does not exist")]
    ELSE selectRows(tbls, parsed, table, joined.rows)

select(tbls, parsed) ==
    IF ~HasTable(tbls, parsed.tableName)
    THEN [tables |-> tbls, result |-> Fail("Table does not exist")]
    ELSE selectJoined(tbls, parsed, GetTable(tbls, parsed.tableName),
                      IF Len(parsed.joins) > 0
                      THEN executeJoins(tbls, GetTable(tbls, parsed.tableName), parsed.joins)
                      ELSE [threw |-> FALSE, rows |-> GetTable(tbls, parsed.tableName).rows])

-----------------------------------------------------------------------------
(* UPDATE                                                                  *)

\* The uniqueness check of one row: some assignment names an indexed column, gives
\* it another value, and the index holds that value at another position.
updateConflict(table, updates, row, i) ==
    \E j \in 1..Len(updates) :
        /\ HasIndex(table, updates[j].column)
        /\ updates[j].value # Cell(row, updates[j].column)
        /\ LET existing == searchIndex(GetIndex(table, updates[j].column), updates[j].value)
           IN Len(existing) > 0 /\ ~Includes(existing, i)

\* The index loop of one row: per assignment on an indexed column, remove the old
\* posting and insert the new one (the insert's result is not looked at).
RECURSIVE updateIndexes(_, _, _, _, _)
updateIndexes(table, updates, j, row, i) ==
    IF j > Len(updates) THEN table
    ELSE IF ~HasIndex(table, updates[j].column)
    THEN updateIndexes(table, updates, j + 1, row, i)
    ELSE LET at == IndexAt(table, updates[j].column)
             removed == removeFromIndex(table.indexes[at], Cell(row, updates[j].column), i)
             inserted == insertIntoIndex(removed, updates[j].value, i).index
         IN updateIndexes([table EXCEPT !.indexes[at] = inserted], updates, j + 1, row, i)

RECURSIVE applyUpdates(_, _, _)
applyUpdates(row, updates, j) ==
    IF j > Len(updates) THEN row
    ELSE applyUpdates(SetCell(row, updates[j].column, updates[j].value), updates, j + 1)

\* The loop over the rows from position i (0-based) on: [table, failed, affectedRows].
\* A uniqueness failure returns at once, with the rows before i already written.
RECURSIVE updateFrom(_, _, _, _)
updateFrom(table, parsed, i, affectedRows) ==
    IF i >= Len(table.rows)
    THEN [table |-> table, failed |-> FALSE, affectedRows |-> affectedRows]
    ELSE LET row == table.rows[i + 1] IN
         IF parsed.conditions = <<>> \/ evaluateConditions(row, parsed.conditions)
         THEN IF updateConflict(table, parsed.updates, row, i)
              THEN [table |-> table, failed |-> TRUE, affectedRows |-> affectedRows]
              ELSE LET indexed == updateIndexes(table, parsed.updates, 1, row, i)
                       written == [indexed EXCEPT
                                      !.rows[i + 1] = applyUpdates(row, parsed.updates, 1)]
                   IN updateFrom(written, parsed, i + 1, affectedRows + 1)
         ELSE updateFrom(table, parsed, i + 1, affectedRows)

\* A reading of line 364 that reports the number of rows of the table.
updatedCountingAll(tbls, done) ==
    [tables |-> SetTable(tbls, done.table),
     result |-> IF done.failed THEN Fail("Duplicate value for unique column")
                ELSE Ok(<<>>, Len(done.table.rows))]

\* The result of update, done being what the loop over the rows gave.
updated(tbls, done) ==
    [tables |-> SetTable(tbls, done.table),
     result |-> IF done.failed THEN Fail("Duplicate value for unique column")
                ELSE Ok(<<>>, done.affectedRows)]

update(tbls, parsed) ==
    IF ~HasTable(tbls, parsed.tableName)
    THEN [tables |-> tbls, result |-> Fail("Table does not exist")]
    ELSE updated(tbls, updateFrom(GetTable(tbls, parsed.tableName), parsed, 0, 0))

-----------------------------------------------------------------------------
(* DELETE and DROP                                                         *)

\* The positions (0-based, increasing) of the rows that satisfy the conditions.
indicesToDelete(table, conditions) ==
    SelectSeq([j \in 1..Len(table.rows) |-> j - 1],
              LAMBDA p : conditions = <<>> \/ evaluateConditions(table.rows[p + 1], conditions))

\* "Remove from indexes first": every index loses the posting of every deleted row.
removeRowFromIndexes(indexes, row, idx) ==
    [j \in 1..Len(indexes) |-> removeFromIndex(indexes[j], Cell(row, indexes[j].columnName), idx)]

RECURSIVE removeDeleted(_, _, _)
removeDeleted(table, indices, j) ==
    IF j > Len(indices) THEN table
    ELSE removeDeleted([table EXCEPT !.indexes =
                           removeRowFromIndexes(table.indexes, table.rows[indices[j] + 1], indices[j])],
                       indices, j + 1)

\* A reading of lines 390-392 with the loop running upwards: indices[1] is spliced
\* out first, indices[j] last.
RECURSIVE spliceRowsForward(_, _, _)
spliceRowsForward(rows, indices, j) ==
    IF j < 1 THEN rows ELSE SpliceOut(spliceRowsForward(rows, indices, j - 1), indices[j])

\* rows.splice(indices[j], 1) for j from the last index down to the first
RECURSIVE spliceRows(_, _, _)
spliceRows(rows, indices, j) ==
    IF j < 1 THEN rows ELSE spliceRows(SpliceOut(rows, indices[j]), indices, j - 1)

\* The end of delete: indexes are the table's indexes after the postings of the
\* deleted rows were removed, rows what the splices left; every index is rebuilt.
deleted(tbls, table, indexes, rows, count) ==
    [tables |-> SetTable(tbls,
                    [table EXCEPT
                        !.rows = rows,
                        !.indexes =
                            [j \in 1..Len(indexes) |->
                                rebuildIndex(indexes[j],
                                             [p \in 1..Len(rows) |->
                                                 [value |-> Cell(rows[p], indexes[j].columnName),
                                                  rowIndex |-> p - 1]])]]),
     result |-> Ok(<<>>, count)]

\* delete once the positions to delete are collected
deleteRows(tbls, table, indices) ==
    deleted(tbls, table, removeDeleted(table, indices, 1).indexes,
            spliceRows(table.rows, indices, Len(indices)), Len(indices))

delete(tbls, parsed) ==
    IF ~HasTable(tbls, parsed.tableName)
    THEN [tables |-> tbls, result |-> Fail("Table does not exist")]
    ELSE deleteRows(tbls, GetTable(tbls, parsed.tableName),
                    indicesToDelete(GetTable(tbls, parsed.tableName), parsed.conditions))

\* A drop that empties the catalog (this.tables.clear()).
dropTableClearing(tbls, parsed) ==
    IF ~HasTable(tbls, parsed.tableName)
    THEN [tables |-> tbls, result |-> Fail("Table does not exist")]
    ELSE [tables |-> <<>>, result |-> Ok(<<>>, 0)]

dropTable(tbls, parsed) ==
    IF ~HasTable(tbls, parsed.tableName)
    THEN [tables |-> tbls, result |-> Fail("Table does not exist")]
    ELSE [tables |-> SelectSeq(tbls, LAMBDA x : x.schema.name # parsed.tableName),
          result |-> Ok(<<>>, 0)]

-----------------------------------------------------------------------------
(* Statements, parseSQL and execute                                        *)

NoWhere == [conds |-> <<>>, ops |-> <<>>]

\* A statement as written.  Fields a statement kind does not have are empty.
Statement(type, tableName) ==
    [type |-> type, tableName |-> tableName, columnDefs |-> <<>>, columns |-> <<>>,
     values |-> <<>>, where |-> NoWhere, updates |-> <<>>, joins |-> <<>>,
     orderBy |-> NoOrderBy, limit |-> NoLimit]

\* The ParsedQuery of a statement.  A statement none of the six parsers accepts
\* (type "UNSUPPORTED") makes parseSQL throw.
parseSQL(sql) ==
    [type |-> sql.type, tableName |-> sql.tableName, columnDefs |-> sql.columnDefs,
     columns |-> sql.columns, values |-> sql.values,
     conditions |-> parseConditions(sql.where),
     updates |-> sql.updates,
     joins |-> [j \in 1..Len(sql.joins) |->
                  [type |-> sql.joins[j].type, tableName |-> sql.joins[j].tableName,
                   on |-> [leftColumn |-> Qualified(sql.joins[j].leftTable, sql.joins[j].leftCol),
                           rightColumn |-> Qualified(sql.joins[j].rightTable, sql.joins[j].rightCol)]]],
     orderBy |-> sql.orderBy, limit |-> sql.limit]

\* execute: [tables, result] after the call
execute(tbls, sql) ==
    IF sql.type = "UNSUPPORTED"
    THEN [tables |-> tbls, result |-> Fail("Unsupported SQL statement")]
    ELSE LET parsed == parseSQL(sql) IN
         CASE parsed.type = "CREATE" -> createTable(tbls, parsed)
           [] parsed.type = "INSERT" -> insert(tbls, parsed)
           [] parsed.type = "SELECT" -> select(tbls, parsed)
           [] parsed.type = "UPDATE" -> update(tbls, parsed)
           [] parsed.type = "DELETE" -> delete(tbls, parsed)
           [] parsed.type = "DROP" -> dropTable(tbls, parsed)
           [] OTHER -> [tables |-> tbls, result |-> Fail("Unknown query type")]

\* The engine after a call: out is what execute gave.
Returned(sql, out) ==
    /\ tables' = out.tables
    /\ query' = sql
    /\ result' = out.result
    /\ UNCHANGED btreeIndex

\* One call of db.execute(sql).
Execute(sql) == Returned(sql, execute(tables, sql))

-----------------------------------------------------------------------------
(* Building statements                                                     *)

Col(name, type, maxLength, primaryKey, unique, notNull) ==
    [name |-> name, type |-> type, maxLength |-> maxLength,
     primaryKey |-> primaryKey, unique |-> unique, notNull |-> notNull]

Cond(column, operator, value) == [column |-> column, operator |-> operator, value |-> value]

Where1(c) == [conds |-> <<c>>, ops |-> <<>>]
Where2(c1, op, c2) == [conds |-> <<c1, c2>>, ops |-> <<op>>]

Set(column, value) == [column |-> column, value |-> value]

CreateStmt(name, columnDefs) == [Statement("CREATE", name) EXCEPT !.columnDefs = columnDefs]

InsertStmt(name, columns, values) ==
    [Statement("INSERT", name) EXCEPT !.columns = columns, !.values = values]

UpdateStmt(name, updates, where) ==
    [Statement("UPDATE", name) EXCEPT !.updates = updates, !.where = where]

DeleteStmt(name, where) == [Statement("DELETE", name) EXCEPT !.where = where]

SelectStmt(name, columns, joins, where) ==
    [Statement("SELECT", name) EXCEPT !.columns = columns, !.joins = joins, !.where = where]

NoStatement == Statement("NONE", "")

NoResult == [success |-> TRUE, data |-> <<>>, affectedRows |-> 0 - 1, error |-> ""]

\* The engine before its first call.
NoCall ==
    /\ tables = <<>>
    /\ query = NoStatement
    /\ result = NoResult

Init ==
    /\ NoCall
    /\ btreeIndex = createBTreeIndex("c", TRUE)

\* The workloads issue statements parseSQL accepts: one of its six prefixes.
Accepted(sql) == sql.type \in {"CREATE", "INSERT", "SELECT", "UPDATE", "DELETE", "DROP"}

\* The workloads keep tables small: no INSERT is issued into a table that holds
\* maxRows rows or whose counter has reached maxAuto.
Room(sql, maxRows, maxAuto) ==
    HasTable(tables, sql.tableName) =>
        /\ Len(GetTable(tables, sql.tableName).rows) < maxRows
        /\ GetTable(tables, sql.tableName).autoIncrement < maxAuto

\* The number of keys an index holds, over all its nodes.
RECURSIVE KeyCount(_)
KeyCount(node) ==
    LET below[j \in 0..Len(node.children)] ==
            IF j = 0 THEN 0 ELSE below[j - 1] + KeyCount(node.children[j])
    IN Len(node.keys) + below[Len(node.children)]

\* An UPDATE can leave keys behind in an index, which then grows without bound:
\* no UPDATE is issued on a table with an index of more than maxKeys keys.
Slim(sql, maxKeys) ==
    HasTable(tables, sql.tableName) =>
        \A j \in 1..Len(GetTable(tables, sql.tableName).indexes) :
            KeyCount(GetTable(tables, sql.tableName).indexes[j].root) <= maxKeys

-----------------------------------------------------------------------------
(* Workload 1: one table with an integer primary key, enough rows for the  *)
(* index to grow an internal node                                          *)

IdxMaxRows == 5
IdxMaxKey == 4

\* CREATE TABLE t (id INT PRIMARY KEY)
KColumns == <<Col("id", "INT", NoMaxLength, TRUE, FALSE, TRUE)>>

IdxKeys == {IntV(i) : i \in 1..IdxMaxKey}

IdxCreate ==
    LET sql == CreateStmt("t", KColumns) IN Accepted(sql) /\ Execute(sql)

IdxInsert ==
    \E v \in IdxKeys :
        LET sql == InsertStmt("t", <<"id">>, <<v>>) IN Room(sql, IdxMaxRows, 2) /\ Execute(sql)

\* The keys the UPDATEs move rows between: the middle ones, which are the keys a
\* root split promotes.
IdxHot == {IntV(2), IntV(3)}

\* UPDATE t SET id = v WHERE id = w
IdxUpdate ==
    \E v \in IdxHot, w \in IdxHot :
        LET sql == UpdateStmt("t", <<Set("id", v)>>, Where1(Cond("id", "=", w)))
        IN Slim(sql, IdxMaxRows) /\ Execute(sql)

IdxDelete ==
    \E w \in IdxKeys :
        LET sql == DeleteStmt("t", Where1(Cond("id", "=", w))) IN Accepted(sql) /\ Execute(sql)

\* DELETE FROM t
IdxDeleteAll ==
    LET sql == DeleteStmt("t", NoWhere) IN Accepted(sql) /\ Execute(sql)

IdxNext == IdxCreate \/ IdxInsert \/ IdxUpdate \/ IdxDelete \/ IdxDeleteAll

SpecIndex == Init /\ [][IdxNext]_vars

-----------------------------------------------------------------------------
(* Workload 2: the write path of a table with two unique columns           *)

WrMaxRows == 2
WrMaxInt == 2
WrMaxAuto == 3

\* CREATE TABLE t (id INT PRIMARY KEY, e VARCHAR(2) UNIQUE)
TColumns == <<Col("id", "INT", NoMaxLength, TRUE, FALSE, TRUE),
              Col("e", "VARCHAR", 2, FALSE, TRUE, FALSE)>>

WrInts == {IntV(i) : i \in 1..WrMaxInt}

WrStrings == {StrV(<<"a">>), StrV(<<"b">>)}

WrCreate ==
    LET sql == CreateStmt("t", TColumns) IN Accepted(sql) /\ Execute(sql)

\* INSERT INTO t (id, e) VALUES (i, e)
WrInsert ==
    \E i \in WrInts, e \in WrStrings :
        LET sql == InsertStmt("t", <<"id", "e">>, <<i, e>>)
        IN Room(sql, WrMaxRows, WrMaxAuto) /\ Execute(sql)

\* INSERT INTO t (e) VALUES (e)
WrInsertAuto ==
    \E e \in WrStrings :
        LET sql == InsertStmt("t", <<"e">>, <<e>>)
        IN Room(sql, WrMaxRows, WrMaxAuto) /\ Execute(sql)

\* UPDATE t SET e = v
WrUpdate ==
    \E v \in {StrV(<<"a">>), StrV(<<"a", "b", "c">>), IntV(1), Null} :
        LET sql == UpdateStmt("t", <<Set("e", v)>>, NoWhere)
        IN Slim(sql, WrMaxRows) /\ Execute(sql)

\* UPDATE t SET id = NULL WHERE e = 'a'
WrUpdateKey ==
    LET sql == UpdateStmt("t", <<Set("id", Null)>>, Where1(Cond("e", "=", StrV(<<"a">>))))
    IN Slim(sql, WrMaxRows) /\ Execute(sql)

\* DELETE FROM t WHERE id = 1
WrDelete ==
    LET sql == DeleteStmt("t", Where1(Cond("id", "=", IntV(1)))) IN Accepted(sql) /\ Execute(sql)

WrDrop ==
    LET sql == Statement("DROP", "t") IN Accepted(sql) /\ Execute(sql)

\* INSERT INTO t (id, e) VALUES (NULL, e)
WrInsertNullKey ==
    \E e \in WrStrings :
        LET sql == InsertStmt("t", <<"id", "e">>, <<Null, e>>)
        IN Room(sql, WrMaxRows, WrMaxAuto) /\ Execute(sql)

\* UPDATE t SET zz = 1: zz is no column of t
WrUpdateUnknown ==
    LET sql == UpdateStmt("t", <<Set("zz", IntV(1))>>, NoWhere)
    IN Slim(sql, WrMaxRows) /\ Execute(sql)

WrNext ==
    \/ WrCreate \/ WrInsert \/ WrInsertAuto \/ WrUpdate \/ WrUpdateKey \/ WrDelete \/ WrDrop
    \/ WrInsertNullKey \/ WrUpdateUnknown

SpecWrite == Init /\ [][WrNext]_vars

-----------------------------------------------------------------------------
(* Workload 3: WHERE clauses of up to three conditions in SELECT, UPDATE   *)
(* and DELETE                                                              *)

WhMaxRows == 2
WhMaxInt == 2

\* CREATE TABLE t (id INT PRIMARY KEY, e VARCHAR(2))
VColumns == <<Col("id", "INT", NoMaxLength, TRUE, FALSE, TRUE),
              Col("e", "VARCHAR", 2, FALSE, FALSE, FALSE)>>

\* The conditions the clauses are made of, in the orders they are written in.
WhA == Cond("id", "=", IntV(1))
WhB == Cond("e", "=", StrV(<<"a">>))
WhC == Cond("id", ">", IntV(1))

WhOrders == {<<WhA, WhB, WhC>>, <<WhB, WhC, WhA>>, <<WhC, WhA, WhB>>}

\* c1, c1 op1 c2, c1 op1 c2 op2 c3
WhClauses ==
    {[conds |-> SubSeq(o, 1, n), ops |-> SubSeq(ops, 1, n - 1)] :
        o \in WhOrders, n \in 1..3, ops \in {"AND", "OR"} \X {"AND", "OR"}}

WhCreate ==
    LET sql == CreateStmt("t", VColumns) IN Accepted(sql) /\ Execute(sql)

WhInsert ==
    \E i \in 1..WhMaxInt, e \in {StrV(<<"a">>), StrV(<<"b">>)} :
        LET sql == InsertStmt("t", <<"id", "e">>, <<IntV(i), e>>)
        IN Room(sql, WhMaxRows, 2) /\ Execute(sql)

WhSelect ==
    \E w \in WhClauses :
        LET sql == SelectStmt("t", <<"*">>, <<>>, w) IN Accepted(sql) /\ Execute(sql)

WhUpdate ==
    \E w \in WhClauses :
        LET sql == UpdateStmt("t", <<Set("e", StrV(<<"b">>))>>, w)
        IN Accepted(sql) /\ Execute(sql)

WhDelete ==
    \E w \in WhClauses :
        LET sql == DeleteStmt("t", w) IN Accepted(sql) /\ Execute(sql)

\* Conditions that compare a column with a literal of another kind: the INT
\* column with '2' and TRUE, the VARCHAR column with 1.
WhMixed ==
    {Cond(c[1], op, c[2]) :
        c \in {<<"id", StrV(<<"2">>)>>, <<"id", BoolV(TRUE)>>, <<"e", IntV(1)>>},
        op \in {"=", "<", ">", "<=", ">="}}

\* SELECT * FROM t WHERE column op literal, the literal of another kind
WhSelectMixed ==
    \E c \in WhMixed :
        LET sql == SelectStmt("t", <<"*">>, <<>>, Where1(c)) IN Accepted(sql) /\ Execute(sql)

\* UPDATE t SET e = 'b'
WhUpdateAll ==
    LET sql == UpdateStmt("t", <<Set("e", StrV(<<"b">>))>>, NoWhere)
    IN Accepted(sql) /\ Execute(sql)

WhNext ==
    \/ WhCreate \/ WhInsert \/ WhSelect \/ WhUpdate \/ WhDelete \/ WhSelectMixed
    \/ WhUpdateAll

SpecWhere == Init /\ [][WhNext]_vars

-----------------------------------------------------------------------------
(* Workload 4: SELECT over a join of two tables                            *)

JnMaxRows == 2
JnMaxInt == 2

\* CREATE TABLE u (k VARCHAR(1) PRIMARY KEY, r INT)
UColumns == <<Col("k", "VARCHAR", 1, TRUE, FALSE, TRUE),
              Col("r", "INT", NoMaxLength, FALSE, FALSE, FALSE)>>

JnInts == {IntV(i) : i \in 1..JnMaxInt}

\* [INNER|LEFT|RIGHT] JOIN u ON t.id = u.r
TJoinU(type) == [type |-> type, tableName |-> "u",
                 leftTable |-> "t", leftCol |-> "id", rightTable |-> "u", rightCol |-> "r"]

JnCreate ==
    \E sql \in {CreateStmt("t", VColumns), CreateStmt("u", UColumns)} :
        Accepted(sql) /\ Execute(sql)

\* INSERT INTO t (id, e) VALUES (i, 'a')
JnInsertT ==
    \E i \in JnInts :
        LET sql == InsertStmt("t", <<"id", "e">>, <<i, StrV(<<"a">>)>>)
        IN Room(sql, JnMaxRows, 2) /\ Execute(sql)

\* INSERT INTO u (k, r) VALUES (k, r)
JnInsertU ==
    \E k \in {StrV(<<"a">>), StrV(<<"b">>)}, r \in JnInts \cup {Null} :
        LET sql == InsertStmt("u", <<"k", "r">>, <<k, r>>)
        IN Room(sql, JnMaxRows, 2) /\ Execute(sql)

\* INSERT INTO u (r) VALUES (r)
JnInsertOmitKey ==
    \E r \in JnInts :
        LET sql == InsertStmt("u", <<"r">>, <<r>>)
        IN Room(sql, JnMaxRows, 2) /\ Execute(sql)

JnWheres == {NoWhere,
             Where1(Cond("id", "=", IntV(1))),
             Where1(Cond("u.r", "=", IntV(1))),
             Where1(Cond("e", "=", StrV(<<"a">>)))}

JnSelect ==
    \E type \in {"INNER", "LEFT", "RIGHT"}, w \in JnWheres :
        LET sql == SelectStmt("t", <<"*">>, <<TJoinU(type)>>, w)
        IN Accepted(sql) /\ Execute(sql)

JnDrop ==
    \E name \in {"t", "u"} :
        LET sql == Statement("DROP", name) IN Accepted(sql) /\ Execute(sql)

\* INSERT INTO t (id) VALUES (i): e is stored as null
JnInsertNoE ==
    \E i \in JnInts :
        LET sql == InsertStmt("t", <<"id">>, <<i>>)
        IN Room(sql, JnMaxRows, 2) /\ Execute(sql)

\* [INNER|LEFT|RIGHT] JOIN u ON t.e = u.r: a string-or-null column against an
\* integer-or-null column
TJoinUOnE(type) == [type |-> type, tableName |-> "u",
                    leftTable |-> "t", leftCol |-> "e", rightTable |-> "u", rightCol |-> "r"]

\* SELECT * FROM t [INNER|LEFT|RIGHT] JOIN u ON t.e = u.r
JnSelectOnE ==
    \E type \in {"INNER", "LEFT", "RIGHT"} :
        LET sql == SelectStmt("t", <<"*">>, <<TJoinUOnE(type)>>, NoWhere)
        IN Accepted(sql) /\ Execute(sql)

\* A statement with none of the six prefixes (parseSQL throws), e.g. SHOW TABLES
JnUnsupported ==
    LET sql == Statement("UNSUPPORTED", "") IN ~Accepted(sql) /\ Execute(sql)

JnNext ==
    \/ JnCreate \/ JnInsertT \/ JnInsertU \/ JnInsertOmitKey \/ JnSelect \/ JnDrop
    \/ JnInsertNoE \/ JnSelectOnE \/ JnUnsupported

SpecJoin == Init /\ [][JnNext]_vars

-----------------------------------------------------------------------------
(* Workload 5: SELECT with WHERE, ORDER BY, LIMIT and a column list        *)

SlMaxRows == 3

\* SELECT columns FROM name [WHERE ...] [ORDER BY column direction] [LIMIT n]
SelectOrdered(name, columns, where, orderBy, limit) ==
    [Statement("SELECT", name) EXCEPT !.columns = columns, !.where = where,
                                      !.orderBy = orderBy, !.limit = limit]

OrderBy(column, direction) == [column |-> column, direction |-> direction]

SlCreate ==
    LET sql == CreateStmt("t", VColumns) IN Accepted(sql) /\ Execute(sql)

\* INSERT INTO t (e) VALUES (e): the keys are 1, 2, ... in insertion order
SlInsert ==
    \E e \in {Null, StrV(<<"a">>), StrV(<<"b">>)} :
        LET sql == InsertStmt("t", <<"e">>, <<e>>)
        IN Room(sql, SlMaxRows, SlMaxRows + 1) /\ Execute(sql)

SlOrders == {NoOrderBy} \cup {OrderBy(c, d) : c \in {"e", "id"}, d \in {"ASC", "DESC"}}

\* No LIMIT, LIMIT 0, ..., LIMIT (as many rows as the table can hold): a LIMIT above
\* the number of rows is met on the tables that are not full
SlLimits == {NoLimit} \cup (0..SlMaxRows)

SlSelect ==
    \E columns \in {<<"*">>, <<"id">>}, w \in {NoWhere, Where1(WhC)},
       o \in SlOrders, n \in SlLimits :
        LET sql == SelectOrdered("t", columns, w, o, n) IN Accepted(sql) /\ Execute(sql)

\* SELECT * FROM t [INNER|LEFT] JOIN name ON t.id = name.id [ORDER BY e DESC],
\* name being t itself or u, a table that is never created (the join throws)
SlSelectJoin ==
    \E type \in {"INNER", "LEFT"}, name \in {"t", "u"},
       o \in {NoOrderBy, OrderBy("e", "DESC")} :
        LET sql == [SelectOrdered("t", <<"*">>, NoWhere, o, NoLimit) EXCEPT
                        !.joins = <<[type |-> type, tableName |-> name,
                                     leftTable |-> "t", leftCol |-> "id",
                                     rightTable |-> name, rightCol |-> "id"]>>]
        IN Accepted(sql) /\ Execute(sql)

\* SELECT * FROM u
SlSelectUnknown ==
    LET sql == SelectOrdered("u", <<"*">>, NoWhere, NoOrderBy, NoLimit)
    IN ~HasTable(tables, sql.tableName) /\ Execute(sql)

SlNext == SlCreate \/ SlInsert \/ SlSelect \/ SlSelectJoin \/ SlSelectUnknown

SpecSelect == Init /\ [][SlNext]_vars

-----------------------------------------------------------------------------
(* Workload 6: SELECT ... WHERE e LIKE pattern                             *)

LkMaxRows == 2

\* The strings stored in column e: '', 'a', 'A', 'ab', 'a.'
LkStrings == {StrV(<<>>), StrV(<<"a">>), StrV(<<"A">>), StrV(<<"a", "b">>), StrV(<<"a", ".">>)}

\* The patterns: '%', '', '_', 'a', 'a%', '%b', '_b', 'a_', 'A_', '__', 'a.', '.'
LkPatterns ==
    {StrV(<<"%">>), StrV(<<>>), StrV(<<"_">>), StrV(<<"a">>), StrV(<<"a", "%">>),
     StrV(<<"%", "b">>), StrV(<<"_", "b">>), StrV(<<"a", "_">>), StrV(<<"A", "_">>),
     StrV(<<"_", "_">>), StrV(<<"a", ".">>), StrV(<<".">>)}

LkCreate ==
    LET sql == CreateStmt("t", VColumns) IN Accepted(sql) /\ Execute(sql)

\* INSERT INTO t (e) VALUES (e), e a string or NULL
LkInsert ==
    \E e \in LkStrings \cup {Null} :
        LET sql == InsertStmt("t", <<"e">>, <<e>>)
        IN Room(sql, LkMaxRows, LkMaxRows + 1) /\ Execute(sql)

\* SELECT * FROM t WHERE e LIKE pattern
LkSelect ==
    \E pattern \in LkPatterns :
        LET sql == SelectStmt("t", <<"*">>, <<>>, Where1(Cond("e", "LIKE", pattern)))
        IN Accepted(sql) /\ Execute(sql)

\* SELECT * FROM t WHERE e LIKE 1, and WHERE id LIKE '1': a pattern or a cell that
\* is no string
LkSelectOther ==
    \E c \in {Cond("e", "LIKE", IntV(1)), Cond("id", "LIKE", StrV(<<"1">>)),
              Cond("id", "LIKE", StrV(<<"%">>))} :
        LET sql == SelectStmt("t", <<"*">>, <<>>, Where1(c)) IN Accepted(sql) /\ Execute(sql)

LkNext == LkCreate \/ LkInsert \/ LkSelect \/ LkSelectOther

SpecLike == Init /\ [][LkNext]_vars

-----------------------------------------------------------------------------
(* The index module called directly                                        *)

\* The number of row positions an index holds, over all its posting lists.
RECURSIVE PostingCount(_)
PostingCount(node) ==
    LET here[j \in 0..Len(node.rowIndices)] ==
            IF j = 0 THEN 0 ELSE here[j - 1] + Len(node.rowIndices[j])
        below[j \in 0..Len(node.children)] ==
            IF j = 0 THEN 0 ELSE below[j - 1] + PostingCount(node.children[j])
    IN here[Len(node.rowIndices)] + below[Len(node.children)]

\* One call of insertIntoIndex(btreeIndex, value, rowIndex); a refused call
\* leaves the index as it is.
InsertIntoIndex(value, rowIndex) ==
    /\ btreeIndex' = insertIntoIndex(btreeIndex, value, rowIndex).index
    /\ UNCHANGED <<tables, query, result>>

\* One call of removeFromIndex(btreeIndex, value, rowIndex).
RemoveFromIndex(value, rowIndex) ==
    /\ btreeIndex' = removeFromIndex(btreeIndex, value, rowIndex)
    /\ UNCHANGED <<tables, query, result>>

-----------------------------------------------------------------------------
(* Workload 7: a unique index filled by insertIntoIndex, the caller        *)
(* indexing a column whose row at position n - 1 holds the integer n and   *)
(* whose row at position UqMaxKey holds the string '1a'                    *)

UqMaxKey == 10

UqKeys == {IntV(n) : n \in 1..UqMaxKey} \cup {StrV(<<"1", "a">>)}

\* The position of the row that holds the key.
UqRowOf(value) == IF value.k = "number" THEN value.n - 1 ELSE UqMaxKey

UqInit ==
    /\ NoCall
    /\ btreeIndex = createBTreeIndex("c", TRUE)

\* The caller stops when the tree holds as many postings as there are rows.
UqInsert ==
    \E value \in UqKeys :
        /\ PostingCount(btreeIndex.root) <= UqMaxKey
        /\ InsertIntoIndex(value, UqRowOf(value))

UqNext == UqInsert

SpecUnique == UqInit /\ [][UqNext]_vars

-----------------------------------------------------------------------------
(* Workload 8: a non-unique index filled by insertIntoIndex                *)

ShMaxKey == 4
ShMaxPos == 1
ShMaxPostings == 5

ShKeys == {IntV(n) : n \in 1..ShMaxKey}

ShInit ==
    /\ NoCall
    /\ btreeIndex = createBTreeIndex("c", FALSE)

\* The caller stops when the tree holds ShMaxPostings row positions.
ShInsert ==
    \E value \in ShKeys, rowIndex \in 0..ShMaxPos :
        /\ PostingCount(btreeIndex.root) < ShMaxPostings
        /\ InsertIntoIndex(value, rowIndex)

ShNext == ShInsert

SpecShared == ShInit /\ [][ShNext]_vars

-----------------------------------------------------------------------------
(* Workload 9: a unique index with insertIntoIndex and removeFromIndex     *)
(* calls, the row at position n - 1 holding the integer n                  *)

RmMaxKey == 4
RmMaxNodes == 3

RmKeys == {IntV(n) : n \in 1..RmMaxKey}

\* The number of nodes of a tree.
RECURSIVE NodeCount(_)
NodeCount(node) ==
    LET below[j \in 0..Len(node.children)] ==
            IF j = 0 THEN 0 ELSE below[j - 1] + NodeCount(node.children[j])
    IN 1 + below[Len(node.children)]

RmInit ==
    /\ NoCall
    /\ btreeIndex = createBTreeIndex("c", TRUE)

\* The caller stops inserting when the tree holds more row positions than there
\* are rows (a tree that lost track of a key takes the key a second time) or
\* more than RmMaxNodes nodes (removals leave empty nodes behind).
RmInsert ==
    \E value \in RmKeys :
        /\ PostingCount(btreeIndex.root) <= RmMaxKey
        /\ NodeCount(btreeIndex.root) <= RmMaxNodes
        /\ InsertIntoIndex(value, UqRowOf(value))

\* The caller removes the posting of a row from an index that holds postings.
RmRemove ==
    \E value \in RmKeys :
        /\ PostingCount(btreeIndex.root) > 0
        /\ RemoveFromIndex(value, UqRowOf(value))

RmNext == RmInsert \/ RmRemove

SpecRemove == RmInit /\ [][RmNext]_vars

-----------------------------------------------------------------------------
(* Workload 10: a unique index over a column that holds NULL, integers and *)
(* strings, some of them numeric-looking                                   *)

CmpMaxPostings == 4

\* The indexed column, row by row: NULL, 2, 9, 10, '9', '10', '1a'
CmpColumn == <<Null, IntV(2), IntV(9), IntV(10),
               StrV(<<"9">>), StrV(<<"1", "0">>), StrV(<<"1", "a">>)>>

CmpKeys == {CmpColumn[p] : p \in DOMAIN CmpColumn}

\* The position of the row that holds the value
CmpRowOf(value) == (CHOOSE p \in DOMAIN CmpColumn : CmpColumn[p] = value) - 1

CmpInit ==
    /\ NoCall
    /\ btreeIndex = createBTreeIndex("c", TRUE)

CmpInsert ==
    \E value \in CmpKeys :
        /\ PostingCount(btreeIndex.root) < CmpMaxPostings
        /\ InsertIntoIndex(value, CmpRowOf(value))

CmpNext == CmpInsert

SpecCompare == CmpInit /\ [][CmpNext]_vars

------------------------------------------------------------------------------
(* Workload 11: statements the engine rejects, on a table with a VARCHAR(L) *)
(* NOT NULL column                                                         *)

RjMaxRows == 2
RjMaxLength == 2

\* CREATE TABLE t (id INT PRIMARY KEY, e VARCHAR(L) NOT NULL, f INT)
RjColumns(L) == <<Col("id", "INT", NoMaxLength, TRUE, FALSE, TRUE),
                  Col("e", "VARCHAR", L, FALSE, FALSE, TRUE),
                  Col("f", "INT", NoMaxLength, FALSE, FALSE, FALSE)>>

\* The strings '', 'a', 'ab', ... of up to RjMaxLength + 1 characters
RjStrings == {StrV(SubSeq(Alphabet, 11, 10 + n)) : n \in 0..(RjMaxLength + 1)}

RjCreate ==
    \E L \in 0..RjMaxLength :
        LET sql == CreateStmt("t", RjColumns(L)) IN Accepted(sql) /\ Execute(sql)

\* INSERT INTO t (e) VALUES (e)
RjInsert ==
    \E e \in RjStrings :
        LET sql == InsertStmt("t", <<"e">>, <<e>>)
        IN Room(sql, RjMaxRows, RjMaxRows + 1) /\ Execute(sql)

\* INSERT INTO t (id, e) VALUES (1); INSERT INTO t (zz) VALUES (1);
\* INSERT INTO t (e) VALUES (1); INSERT INTO t (e, f) VALUES ('', 'a');
\* INSERT INTO t (e) VALUES (NULL); INSERT INTO t (f) VALUES (1)
RjInserts ==
    {InsertStmt("t", <<"id", "e">>, <<IntV(1)>>),
     InsertStmt("t", <<"zz">>, <<IntV(1)>>),
     InsertStmt("t", <<"e">>, <<IntV(1)>>),
     InsertStmt("t", <<"e", "f">>, <<StrV(<<>>), StrV(<<"a">>)>>),
     InsertStmt("t", <<"e">>, <<Null>>),
     InsertStmt("t", <<"f">>, <<IntV(1)>>)}

RjInsertRejected ==
    \E sql \in RjInserts : Accepted(sql) /\ Execute(sql)

\* INSERT INTO u (e) VALUES ('a'); SELECT * FROM u; UPDATE u SET f = 1;
\* DELETE FROM u; DROP TABLE u: no table u is ever created
RjOnUnknownTable ==
    \E sql \in {InsertStmt("u", <<"e">>, <<StrV(<<"a">>)>>),
                SelectStmt("u", <<"*">>, <<>>, NoWhere),
                UpdateStmt("u", <<Set("f", IntV(1))>>, NoWhere),
                DeleteStmt("u", NoWhere),
                Statement("DROP", "u")} :
        ~HasTable(tables, sql.tableName) /\ Execute(sql)

\* A statement with none of the six prefixes (parseSQL throws)
RjUnsupported ==
    LET sql == Statement("UNSUPPORTED", "") IN ~Accepted(sql) /\ Execute(sql)

RjNext == RjCreate \/ RjInsert \/ RjInsertRejected \/ RjOnUnknownTable \/ RjUnsupported

SpecReject == Init /\ [][RjNext]_vars

------------------------------------------------------------------------------
(* Workload 12: two tables created, written, read and dropped side by side *)

TwMaxRows == 2

TwNames == {"t", "u"}

\* CREATE TABLE t (id INT PRIMARY KEY, e VARCHAR(2));
\* CREATE TABLE u (id INT PRIMARY KEY, e VARCHAR(2) UNIQUE)
TwColumns(name) == IF name = "t" THEN VColumns ELSE TColumns

TwCreate ==
    \E name \in TwNames :
        LET sql == CreateStmt(name, TwColumns(name)) IN Accepted(sql) /\ Execute(sql)

\* INSERT INTO name (e) VALUES (e)
TwInsert ==
    \E name \in TwNames, e \in {StrV(<<"a">>), StrV(<<"b">>)} :
        LET sql == InsertStmt(name, <<"e">>, <<e>>)
        IN Room(sql, TwMaxRows, TwMaxRows + 1) /\ Execute(sql)

\* SELECT * FROM name
TwSelect ==
    \E name \in TwNames :
        LET sql == SelectStmt(name, <<"*">>, <<>>, NoWhere) IN Accepted(sql) /\ Execute(sql)

\* UPDATE name SET e = 'b' WHERE id = 1
TwUpdate ==
    \E name \in TwNames :
        LET sql == UpdateStmt(name, <<Set("e", StrV(<<"b">>))>>,
                              Where1(Cond("id", "=", IntV(1))))
        IN Accepted(sql) /\ Execute(sql)

\* DELETE FROM name WHERE id = 1
TwDelete ==
    \E name \in TwNames :
        LET sql == DeleteStmt(name, Where1(Cond("id", "=", IntV(1))))
        IN Accepted(sql) /\ Execute(sql)

\* DROP TABLE name
TwDrop ==
    \E name \in TwNames :
        LET sql == Statement("DROP", name) IN Accepted(sql) /\ Execute(sql)

TwNext == TwCreate \/ TwInsert \/ TwSelect \/ TwUpdate \/ TwDelete \/ TwDrop

SpecTwo == Init /\ [][TwNext]_vars

------------------------------------------------------------------------------
(* Workload 13: INSERT alone, into a table with an integer primary key and *)
(* a UNIQUE column, keys given and taken from the counter, NULLs included  *)

KyMaxRows == 3
KyMaxInt == 2
KyMaxAuto == 4

KyInts == {IntV(i) : i \in 1..KyMaxInt}

KyValues == {Null, StrV(<<"a">>), StrV(<<"b">>)}

\* CREATE TABLE t (id INT PRIMARY KEY, e VARCHAR(2) UNIQUE)
KyCreate ==
    LET sql == CreateStmt("t", TColumns) IN Accepted(sql) /\ Execute(sql)

\* INSERT INTO t (id, e) VALUES (i, e)
KyInsert ==
    \E i \in KyInts, e \in KyValues :
        LET sql == InsertStmt("t", <<"id", "e">>, <<i, e>>)
        IN Room(sql, KyMaxRows, KyMaxAuto) /\ Execute(sql)

\* INSERT INTO t (e) VALUES (e)
KyInsertAuto ==
    \E e \in KyValues :
        LET sql == InsertStmt("t", <<"e">>, <<e>>)
        IN Room(sql, KyMaxRows, KyMaxAuto) /\ Execute(sql)

\* INSERT INTO t (id) VALUES (i): e is stored as null
KyInsertOmitE ==
    \E i \in KyInts :
        LET sql == InsertStmt("t", <<"id">>, <<i>>)
        IN Room(sql, KyMaxRows, KyMaxAuto) /\ Execute(sql)

KyNext == KyCreate \/ KyInsert \/ KyInsertAuto \/ KyInsertOmitE

SpecKeys == Init /\ [][KyNext]_vars

------------------------------------------------------------------------------
(* Invariants of the table store                                           *)

\* The cell values found in a table's rows.
CellsOf(table) ==
    UNION {{table.rows[p][c] : c \in DOMAIN table.rows[p]} : p \in 1..Len(table.rows)}

\* The positions a posting list names, as a set.
Positions(list) == {list[j] : j \in 1..Len(list)}

\* The positions (0-based) of the rows that hold value v in column c.
Holders(table, c, v) == {p \in 0..(Len(table.rows) - 1) : Cell(table.rows[p + 1], c) = v}

\* C1: for every table and every unique-constrained column, no two rows hold the
\* same non-null value in that column.
C1_UniqueColumnsHoldNoDuplicates ==
    \A t \in 1..Len(tables) :
        \A j \in 1..Len(tables[t].schema.uniqueKeys) :
            \A p, q \in 1..Len(tables[t].rows) :
                LET c == tables[t].schema.uniqueKeys[j] IN
                (p # q /\ Cell(tables[t].rows[p], c) # Null)
                    => Cell(tables[t].rows[p], c) # Cell(tables[t].rows[q], c)

\* C2: for every table, every indexed column and every value, searchIndex returns
\* exactly the current positions of the rows that hold the value in the column.
C2_IndexReturnsExactlyTheHolders ==
    \A t \in 1..Len(tables) :
        \A j \in 1..Len(tables[t].indexes) :
            \A v \in CellsOf(tables[t]) \cup IdxKeys \cup {Null} :
                Positions(searchIndex(tables[t].indexes[j], v))
                    = Holders(tables[t], tables[t].indexes[j].columnName, v)

\* The row vector and the indexes of every table.
StoreOf(tbls) == [t \in 1..Len(tbls) |-> [rows |-> tbls[t].rows, indexes |-> tbls[t].indexes]]

CountersOf(tbls) == [t \in 1..Len(tbls) |-> tbls[t].autoIncrement]

\* C3: a rejected INSERT leaves the row vector and every index as they were.
C3_RejectedInsertChangesNothing ==
    [][(query'.type = "INSERT" /\ ~result'.success) => StoreOf(tables') = StoreOf(tables)]_vars

\* C4: an UPDATE rejected for a uniqueness violation leaves every row and every
\* index as they were.
C4_RejectedUpdateChangesNothing ==
    [][(query'.type = "UPDATE" /\ ~result'.success
            /\ result'.error = "Duplicate value for unique column")
          => StoreOf(tables') = StoreOf(tables)]_vars

\* C5: an INSERT that omits the integer primary key and is rejected for a
\* uniqueness violation leaves the auto-increment counter as it was.
C5_RejectedInsertKeepsCounter ==
    [][(/\ query'.type = "INSERT" /\ ~result'.success
        /\ result'.error = "Duplicate value for unique column"
        /\ ~Includes(query'.columns, "id"))
          => CountersOf(tables') = CountersOf(tables)]_vars

\* C6: every row's value for a column declared not-null is non-null.
C6_NotNullColumnsHoldNoNull ==
    \A t \in 1..Len(tables) :
        \A j \in 1..Len(tables[t].schema.columns) :
            \A p \in 1..Len(tables[t].rows) :
                tables[t].schema.columns[j].notNull
                    => Cell(tables[t].rows[p], tables[t].schema.columns[j].name) # Null

\* C7: every row's value for a VARCHAR(L) column is null or a string of length
\* at most L.
C7_VarcharCellsFit ==
    \A t \in 1..Len(tables) :
        \A j \in 1..Len(tables[t].schema.columns) :
            \A p \in 1..Len(tables[t].rows) :
                LET colDef == tables[t].schema.columns[j]
                    value == Cell(tables[t].rows[p], colDef.name)
                IN (colDef.type = "VARCHAR" /\ colDef.maxLength # NoMaxLength)
                       => \/ value = Null
                          \/ (value.k = "string" /\ Len(value.s) <= colDef.maxLength)

-----------------------------------------------------------------------------
(* WHERE clauses                                                           *)

\* ((c1 op1 c2) op2 c3) ... up to condition n of the clause as written, op_i being
\* the connective written between c_i and c_(i+1).
RECURSIVE LeftFold(_, _, _)
LeftFold(row, where, n) ==
    IF n = 1 THEN evaluateCondition(row, where.conds[1])
    ELSE IF where.ops[n - 1] = "AND"
         THEN LeftFold(row, where, n - 1) /\ evaluateCondition(row, where.conds[n])
         ELSE LeftFold(row, where, n - 1) \/ evaluateCondition(row, where.conds[n])

Holds(row, where) == LeftFold(row, where, Len(where.conds))

\* c1 OR (c2 AND c3): what a clause c1 OR c2 AND c3 would mean if AND bound tighter.
AndFirst(row, where) ==
    \/ evaluateCondition(row, where.conds[1])
    \/ (evaluateCondition(row, where.conds[2]) /\ evaluateCondition(row, where.conds[3]))

\* C10: a WHERE clause is evaluated for a row as the strict left-to-right fold of
\* its conditions, in SELECT, UPDATE and DELETE alike: a successful SELECT returns
\* the rows its filter ran on for which the fold is true, a successful UPDATE
\* touches the rows for which it is true and no other, a DELETE removes them.
C10_WhereIsALeftFold ==
    [][(query'.where # NoWhere /\ result'.success /\ HasTable(tables, query'.tableName)) =>
          LET w == query'.where
              before == GetTable(tables, query'.tableName)
              after == GetTable(tables', query'.tableName)
          IN CASE query'.type = "SELECT" ->
                    result'.data = SelectSeq(seedRows(before.rows, parseConditions(w), before),
                                             LAMBDA row : Holds(row, w))
               [] query'.type = "DELETE" ->
                    after.rows = SelectSeq(before.rows, LAMBDA row : ~Holds(row, w))
               [] query'.type = "UPDATE" ->
                    /\ result'.affectedRows
                         = Cardinality({p \in 1..Len(before.rows) : Holds(before.rows[p], w)})
                    /\ \A p \in 1..Len(before.rows) :
                          IF Holds(before.rows[p], w)
                          THEN \A j \in 1..Len(query'.updates) :
                                  after.rows[p][query'.updates[j].column] = query'.updates[j].value
                          ELSE after.rows[p] = before.rows[p]
               [] OTHER -> TRUE]_vars

\* A SELECT ... WHERE c1 OR c2 AND c3 has run on a table holding a row for which
\* (c1 OR c2) AND c3 is false and c1 OR (c2 AND c3) is true, and did not return it.
C10_Witness ==
    /\ query.type = "SELECT" /\ result.success
    /\ Len(query.where.conds) = 3 /\ query.where.ops = <<"OR", "AND">>
    /\ HasTable(tables, query.tableName)
    /\ \E p \in 1..Len(GetTable(tables, query.tableName).rows) :
          LET row == GetTable(tables, query.tableName).rows[p] IN
          /\ ~Holds(row, query.where)
          /\ AndFirst(row, query.where)
          /\ ~Includes(result.data, row)

\* C8: a SELECT without joins returns exactly the rows of the table for which the
\* left-to-right fold of the conditions is true, whether or not the index lookup
\* seeded the filter.
C8_SelectReturnsWhatAFullScanReturns ==
    [][(/\ query'.type = "SELECT" /\ query'.joins = <<>> /\ query'.where # NoWhere
        /\ result'.success)
          => result'.data = SelectSeq(GetTable(tables, query'.tableName).rows,
                                      LAMBDA row : Holds(row, query'.where))]_vars

\* C9: every row a SELECT with joins returns is one of the combined join rows.
C9_JoinSelectReturnsJoinRows ==
    [][(query'.type = "SELECT" /\ query'.joins # <<>> /\ result'.success)
          => LET joined == executeJoins(tables, GetTable(tables, query'.tableName),
                                        parseSQL(query').joins).rows
             IN \A j \in 1..Len(result'.data) : Includes(joined, result'.data[j])]_vars

-----------------------------------------------------------------------------
(* Joins                                                                   *)

\* A SELECT with one join and no WHERE clause succeeded in this step: its data
\* are the rows executeJoins built.
JoinStep ==
    /\ query'.type = "SELECT" /\ Len(query'.joins) = 1 /\ query'.where = NoWhere
    /\ result'.success

\* The join of the statement just executed.
TheJoin == parseSQL(query').joins[1]

\* A joined row that carries a right row: the right row's keys are copied
\* unprefixed as well, and no column name of t is a column name of u.
Paired(row) == LastPart(TheJoin.on.rightColumn) \in DOMAIN row

\* C11: a joined row pairs a left and a right row only when the two ON values are
\* equal and neither is null; a left row whose ON value is null comes out once,
\* null-filled, under LEFT and not at all otherwise.
C11_NullNeverMatchesInJoin ==
    [][JoinStep =>
         LET left == GetTable(tables, query'.tableName).rows
             leftNull == SelectSeq(left, LAMBDA row :
                             Cell(row, LastPart(TheJoin.on.leftColumn)) = Null)
             outNull == SelectSeq(result'.data, LAMBDA row :
                            Cell(row, TheJoin.on.leftColumn) = Null)
         IN /\ \A j \in 1..Len(result'.data) :
                  Paired(result'.data[j]) =>
                      /\ Cell(result'.data[j], TheJoin.on.leftColumn)
                            = Cell(result'.data[j], TheJoin.on.rightColumn)
                      /\ Cell(result'.data[j], TheJoin.on.leftColumn).k
                            \notin {"null", "undefined"}
            /\ Len(outNull) = IF TheJoin.type = "LEFT" THEN Len(leftNull) ELSE 0]_vars

\* The (left position, right position) pairs whose ON cells the join loop finds
\* equal, and <<p, 0>> for a left row p that a LEFT join keeps without a match.
JoinSlots(left, right, join) ==
    LET lc == LastPart(join.on.leftColumn)
        rc == LastPart(join.on.rightColumn)
        pairs == {s \in (1..Len(left)) \X (1..Len(right)) :
                     Cell(left[s[1]], lc) = Cell(right[s[2]], rc)}
        alone == {p \in 1..Len(left) : \A q \in 1..Len(right) : <<p, q>> \notin pairs}
    IN pairs \cup (IF join.type = "LEFT" THEN {<<p, 0>> : p \in alone} ELSE {})

\* The place of slot s in left-major order.
SlotRank(slots, s) ==
    1 + Cardinality({x \in slots : x[1] < s[1] \/ (x[1] = s[1] /\ x[2] < s[2])})

\* C12: a LEFT or INNER join gives one row per matching (left, right) pair, in
\* left-major order, and under LEFT one more row per left row without a match,
\* in that left row's place, with every u.column of the joined schema null;
\* every row carries its left row's cells, bare and under the t. prefix.
C12_JoinFanOut ==
    [][(JoinStep /\ TheJoin.type \in {"INNER", "LEFT"}) =>
         LET left == GetTable(tables, query'.tableName).rows
             joinTable == GetTable(tables, TheJoin.tableName)
             slots == JoinSlots(left, joinTable.rows, TheJoin)
         IN /\ Len(result'.data) = Cardinality(slots)
            /\ \A s \in slots :
                  LET row == result'.data[SlotRank(slots, s)] IN
                  /\ \A c \in DOMAIN left[s[1]] :
                        /\ Cell(row, c) = left[s[1]][c]
                        /\ Cell(row, Qualified(query'.tableName, c)) = left[s[1]][c]
                  /\ s[2] > 0 =>
                        \A c \in DOMAIN joinTable.rows[s[2]] :
                            Cell(row, Qualified(TheJoin.tableName, c)) = joinTable.rows[s[2]][c]
                  /\ s[2] = 0 =>
                        \A j \in 1..Len(joinTable.schema.columns) :
                            Cell(row, Qualified(TheJoin.tableName,
                                               joinTable.schema.columns[j].name)) = Null]_vars

\* A LEFT join returned two rows: one left row with its match and one left row
\* without, null-filled.
C12_Witness ==
    /\ query.type = "SELECT" /\ Len(query.joins) = 1 /\ query.where = NoWhere
    /\ query.joins[1].type = "LEFT" /\ result.success
    /\ Len(result.data) = 2
    /\ \E j \in 1..2 : "k" \in DOMAIN result.data[j] /\ "k" \notin DOMAIN result.data[3 - j]
                        /\ Cell(result.data[3 - j], "u.k") = Null

\* C13: a RIGHT join returns every row of the joined (right) table at least
\* once, also a right row that matches no left row.
C13_RightJoinKeepsRightRows ==
    [][(JoinStep /\ TheJoin.type = "RIGHT") =>
         LET right == GetTable(tables, TheJoin.tableName).rows
         IN \A q \in 1..Len(right) :
               \E j \in 1..Len(result'.data) :
                   \A c \in DOMAIN right[q] :
                       Cell(result'.data[j], Qualified(TheJoin.tableName, c)) = right[q][c]]_vars

-----------------------------------------------------------------------------
(* Comparisons                                                             *)

\* C14: = and the four ordering comparisons are false for a cell and a literal of
\* different kinds: a SELECT on one such condition returns only rows whose cell
\* is of the literal's kind, and for an ordering comparison not null.
C14_MixedKindsNeverCompare ==
    [][(/\ query'.type = "SELECT" /\ query'.joins = <<>> /\ result'.success
        /\ Len(query'.where.conds) = 1
        /\ query'.where.conds[1].operator \in {"=", "<", ">", "<=", ">="})
          => \A j \in 1..Len(result'.data) :
                LET cond == query'.where.conds[1]
                    value == Cell(result'.data[j], cond.column)
                IN /\ value.k = cond.value.k
                   /\ cond.operator # "=" => value.k # "null"]_vars

-----------------------------------------------------------------------------
(* Round trips                                                             *)

\* The row a successful INSERT is to store: the listed values, the counter's
\* value before the call for an omitted INT primary key, null elsewhere.
InsertedRow(before, columns, values) ==
    [c \in {before.schema.columns[j].name : j \in 1..Len(before.schema.columns)} |->
        IF Includes(columns, c) THEN values[CHOOSE j \in 1..Len(columns) : columns[j] = c]
        ELSE IF c = before.schema.primaryKey /\ FindColumn(before.schema, c).type = "INT"
        THEN IntV(before.autoIncrement)
        ELSE Null]

\* SELECT * FROM name WHERE column = value, on the tables tbls
SelectWhereEq(tbls, name, column, value) ==
    execute(tbls, SelectStmt(name, <<"*">>, <<>>, Where1(Cond(column, "=", value)))).result

C16_DeleteThenSelectIsEmpty ==
    [][(query'.type = "DELETE" /\ result'.success)
          => LET sel == execute(tables', SelectStmt(query'.tableName, <<"*">>, <<>>,
                                                     query'.where)).result
             IN sel.success /\ sel.data = <<>>]_vars

\* A DELETE on a clause with OR removed one of two rows.
C16_Witness ==
    /\ query.type = "DELETE" /\ result.success /\ result.affectedRows = 1
    /\ "OR" \in {query.where.ops[j] : j \in 1..Len(query.where.ops)}
    /\ Len(GetTable(tables, query.tableName).rows) = 1

-----------------------------------------------------------------------------
(* The auto-increment counter                                              *)

\* C17: a table is created with its counter at 1; no call on an existing table
\* lowers its counter; an INSERT that succeeds without listing the INT primary
\* key stores the counter's value as the key and leaves the counter above it.
C17_CounterStaysAboveAssignedKeys ==
    [][/\ (query'.type = "CREATE" /\ result'.success)
            => GetTable(tables', query'.tableName).autoIncrement = 1
       /\ \A t \in 1..Len(tables) :
             HasTable(tables', tables[t].schema.name)
                 => GetTable(tables', tables[t].schema.name).autoIncrement
                        >= tables[t].autoIncrement
       /\ (/\ query'.type = "INSERT" /\ result'.success
           /\ ~Includes(query'.columns, GetTable(tables, query'.tableName).schema.primaryKey)
           /\ GetTable(tables, query'.tableName).schema.primaryKey # NoPrimaryKey
           /\ FindColumn(GetTable(tables, query'.tableName).schema,
                         GetTable(tables, query'.tableName).schema.primaryKey).type = "INT")
            => LET before == GetTable(tables, query'.tableName)
                   after == GetTable(tables', query'.tableName)
                   key == Cell(after.rows[Len(after.rows)], before.schema.primaryKey)
               IN /\ key = IntV(before.autoIncrement)
                  /\ after.autoIncrement > key.n
                  /\ \A p \in 1..Len(before.rows) :
                        Cell(after.rows[p], before.schema.primaryKey) # key]_vars

\* An INSERT that omitted the primary key was rejected with the counter at 3.
C17_Witness ==
    /\ query.type = "INSERT" /\ ~result.success /\ ~Includes(query.columns, "id")
    /\ HasTable(tables, query.tableName)
    /\ GetTable(tables, query.tableName).autoIncrement = 3

\* C18: an INSERT that lists the INT primary key with the value NULL, when the
\* counter's value and the other listed values are in no index, succeeds, stores
\* the counter's value as the key and increments the counter.
C18_NullKeyIsAutoAssigned ==
    [][(/\ query'.type = "INSERT" /\ HasTable(tables, query'.tableName)
        /\ query'.columns = <<"id", "e">> /\ query'.values[1] = Null
        /\ LET before == GetTable(tables, query'.tableName) IN
           /\ before.schema.primaryKey = "id"
           /\ FindColumn(before.schema, "id").type = "INT"
           /\ searchIndex(GetIndex(before, "id"), IntV(before.autoIncrement)) = <<>>
           /\ searchIndex(GetIndex(before, "e"), query'.values[2]) = <<>>)
          => LET before == GetTable(tables, query'.tableName)
                 after == GetTable(tables', query'.tableName)
             IN /\ result'.success
                /\ after.rows = Append(before.rows,
                                        [id |-> IntV(before.autoIncrement), e |-> query'.values[2]])
                /\ after.autoIncrement = before.autoIncrement + 1]_vars

-----------------------------------------------------------------------------
(* Unknown columns                                                         *)

\* The declared column names of a table.
ColumnNames(table) == {table.schema.columns[j].name : j \in 1..Len(table.schema.columns)}

\* C19: an UPDATE whose SET list names a column that is not in the schema fails
\* and changes no row, and no row has a key that is not a declared column.
C19_UpdateOfUnknownColumnFails ==
    [][(/\ query'.type = "UPDATE" /\ HasTable(tables, query'.tableName)
        /\ \E j \in 1..Len(query'.updates) :
              query'.updates[j].column \notin ColumnNames(GetTable(tables, query'.tableName)))
          => /\ ~result'.success
             /\ GetTable(tables', query'.tableName).rows = GetTable(tables, query'.tableName).rows
             /\ \A p \in 1..Len(GetTable(tables', query'.tableName).rows) :
                   DOMAIN GetTable(tables', query'.tableName).rows[p]
                       \subseteq ColumnNames(GetTable(tables', query'.tableName))]_vars

-----------------------------------------------------------------------------
(* The result of execute                                                   *)

\* C20: every call of execute gives a result of one of two shapes: success with
\* no error, or failure with an error string (and no data); a successful SELECT
\* counts its data, a successful CREATE or DROP counts 0, a successful INSERT 1.
C20_ResultHasOneOfTwoShapes ==
    query.type # "NONE" =>
        /\ result.success => result.error = ""
        /\ ~result.success => (result.error # "" /\ result.data = <<>>)
        /\ (result.success /\ query.type = "SELECT") => result.affectedRows = Len(result.data)
        /\ (result.success /\ query.type \in {"CREATE", "DROP"}) => result.affectedRows = 0
        /\ (result.success /\ query.type = "INSERT") => result.affectedRows = 1

\* A SELECT on an existing table failed because its join threw: the joined table
\* does not exist.
C20_Witness ==
    /\ query.type = "SELECT" /\ query.joins # <<>> /\ ~result.success
    /\ HasTable(tables, query.tableName) /\ ~HasTable(tables, query.joins[1].tableName)
    /\ result.error = "Table does not exist"

-----------------------------------------------------------------------------
(* The catalog                                                             *)

\* C21: a CREATE TABLE under the name of an existing table fails and leaves that
\* table (schema, rows, indexes, counter) and the rest of the catalog as it was;
\* getTableNames lists every current table once, in creation order: a successful
\* CREATE appends its name, a successful DROP takes its name out, no other call
\* changes the list; getTableRowCount is 0 for an absent table and the length of
\* the row vector otherwise.
C21_TableNamesAreUnique ==
    [][/\ (query'.type = "CREATE" /\ HasTable(tables, query'.tableName))
            => (~result'.success /\ tables' = tables)
       /\ (query'.type = "CREATE" /\ ~HasTable(tables, query'.tableName))
            => getTableNames(tables') = Append(getTableNames(tables), query'.tableName)
       /\ (query'.type = "DROP" /\ result'.success)
            => getTableNames(tables')
                  = SelectSeq(getTableNames(tables), LAMBDA name : name # query'.tableName)
       /\ (query'.type \notin {"CREATE", "DROP"} \/ ~result'.success)
            => getTableNames(tables') = getTableNames(tables)
       /\ \A i, j \in 1..Len(tables') :
             getTableNames(tables')[i] = getTableNames(tables')[j] => i = j
       /\ \A name \in Identifiers :
             getTableRowCount(tables', name)
                = IF \E j \in 1..Len(tables') : tables'[j].schema.name = name
                  THEN Len(tables'[CHOOSE j \in 1..Len(tables') :
                                      tables'[j].schema.name = name].rows)
                  ELSE 0]_vars

\* A CREATE TABLE t was rejected while the catalog lists u before t and t holds
\* rows: t was created, dropped and created again after u.
C21_Witness ==
    /\ query.type = "CREATE" /\ query.tableName = "t" /\ ~result.success
    /\ getTableNames(tables) = <<"u", "t">>
    /\ getTableRowCount(tables, "t") > 0

-----------------------------------------------------------------------------
(* UPDATE                                                                  *)

\* C22: a successful UPDATE reports as affected rows the number of rows that
\* satisfied its WHERE clause before the call (all rows when it has none),
\* whether or not their cells change, keeps the number of rows, and leaves every
\* row that did not satisfy the clause as it was.
C22_UpdateCountsTheRowsItsWhereSelects ==
    [][(query'.type = "UPDATE" /\ result'.success) =>
          LET before == GetTable(tables, query'.tableName).rows
              after == GetTable(tables', query'.tableName).rows
              hit == {p \in 1..Len(before) :
                         query'.where = NoWhere \/ Holds(before[p], query'.where)}
          IN /\ result'.affectedRows = Cardinality(hit)
             /\ Len(after) = Len(before)
             /\ \A p \in (1..Len(before)) \ hit : after[p] = before[p]]_vars

\* An UPDATE ... SET e = 'b' WHERE ... succeeded on two rows that both hold 'b'
\* afterwards, and counted one: the other row held 'b' before and was not
\* selected.
C22_Witness ==
    /\ query.type = "UPDATE" /\ query.where # NoWhere /\ result.success
    /\ result.affectedRows = 1
    /\ Len(GetTable(tables, query.tableName).rows) = 2
    /\ \A p \in 1..2 : GetTable(tables, query.tableName).rows[p]["e"] = StrV(<<"b">>)

-----------------------------------------------------------------------------
(* ORDER BY and LIMIT                                                      *)

\* C23: in the data of a successful SELECT ... ORDER BY c that returns column c,
\* under ASC no row with a non-null c comes before a row with a null c, and
\* under DESC no row with a null c comes before a row with a non-null c.
C23_NullsSortFirstUnderAscLastUnderDesc ==
    [][(query'.type = "SELECT" /\ result'.success /\ query'.orderBy # NoOrderBy
            /\ query'.columns = <<"*">>)
          => \A i, j \in 1..Len(result'.data) :
                LET c == query'.orderBy.column
                    first == Cell(result'.data[i], c)
                    second == Cell(result'.data[j], c)
                IN i < j =>
                      IF query'.orderBy.direction = "ASC"
                      THEN second = Null => first = Null
                      ELSE first = Null => second = Null]_vars

\* A SELECT * FROM t ORDER BY e DESC without WHERE and LIMIT returned three rows,
\* the last one with a null e, on a table whose first row has a null e and whose
\* last row has not.
C23_Witness ==
    /\ query.type = "SELECT" /\ result.success /\ query.columns = <<"*">>
    /\ query.orderBy = OrderBy("e", "DESC") /\ query.where = NoWhere /\ query.limit = NoLimit
    /\ Len(result.data) = 3
    /\ result.data[3]["e"] = Null /\ result.data[1]["e"] # Null
    /\ GetTable(tables, "t").rows[1]["e"] = Null
    /\ GetTable(tables, "t").rows[3]["e"] # Null

\* The cells of a row under the listed columns it has.
Restricted(row, columns) ==
    [c \in {columns[j] : j \in 1..Len(columns)} \cap DOMAIN row |-> row[c]]

\* C24: a successful SELECT without joins filters, then orders, then limits, then
\* projects.  The same statement without LIMIT and with * returns the k rows that
\* satisfy WHERE, in table order without ORDER BY and ordered by the ORDER BY
\* column otherwise; the statement itself returns the first min(n, k) of these
\* (all k without LIMIT), each cut down to the listed columns.
C24_SelectFiltersOrdersLimitsProjects ==
    [][(query'.type = "SELECT" /\ result'.success /\ query'.joins = <<>>) =>
          \A matching \in {SelectSeq(GetTable(tables, query'.tableName).rows,
                                     LAMBDA row : query'.where = NoWhere
                                                     \/ Holds(row, query'.where))} :
          \A ordered \in {execute(tables, [query' EXCEPT !.limit = NoLimit,
                                                          !.columns = <<"*">>]).result.data} :
          LET k == Len(ordered)
              n == IF query'.limit = NoLimit \/ query'.limit > k THEN k ELSE query'.limit
              c == query'.orderBy.column
          IN /\ k = Len(matching)
             /\ \A p \in 1..k : Includes(ordered, matching[p])
             /\ query'.orderBy = NoOrderBy => ordered = matching
             /\ query'.orderBy # NoOrderBy =>
                   \A i, j \in 1..k :
                       i < j => IF query'.orderBy.direction = "ASC"
                                THEN compareValues(Cell(ordered[i], c), Cell(ordered[j], c)) <= 0
                                ELSE compareValues(Cell(ordered[i], c), Cell(ordered[j], c)) >= 0
             /\ Len(result'.data) = n
             /\ \A p \in 1..n :
                   result'.data[p] = IF query'.columns = <<"*">> THEN ordered[p]
                                     ELSE Restricted(ordered[p], query'.columns)]_vars

\* SELECT id FROM t WHERE id > 1 ORDER BY e DESC LIMIT 1 on a table of three rows
\* returned the third row's id alone: the first row is filtered out, the third
\* sorts before the second, one row is kept, e is projected away.
C24_Witness ==
    /\ query = SelectOrdered("t", <<"id">>, Where1(WhC), OrderBy("e", "DESC"), 1)
    /\ result.success
    /\ Len(GetTable(tables, "t").rows) = 3
    /\ result.data = <<[id |-> IntV(3)]>>

\* C32: ORDER BY is a stable sort and a permutation.  The data of a successful
\* SELECT * ... ORDER BY c without LIMIT holds exactly the rows of the table that
\* satisfy WHERE, no value of c decreases along it under ASC and none increases
\* under DESC, and two rows whose values of c compare equal stand in the order
\* they have in the table, under both directions.
C32_OrderByIsAStablePermutation ==
    [][(query'.type = "SELECT" /\ result'.success /\ query'.joins = <<>>
            /\ query'.orderBy # NoOrderBy /\ query'.limit = NoLimit
            /\ query'.columns = <<"*">>) =>
          \A input \in {SelectSeq(GetTable(tables, query'.tableName).rows,
                                  LAMBDA row : query'.where = NoWhere
                                                  \/ Holds(row, query'.where))} :
          LET output == result'.data
              c == query'.orderBy.column
          IN /\ Len(output) = Len(input)
             /\ \A p \in 1..Len(input) :
                   Cardinality({i \in 1..Len(output) : output[i] = input[p]})
                       = Cardinality({i \in 1..Len(input) : input[i] = input[p]})
             /\ \A i, j \in 1..Len(output) :
                   i < j =>
                       \A order \in {compareValues(Cell(output[i], c), Cell(output[j], c))} :
                           /\ query'.orderBy.direction = "ASC" => order <= 0
                           /\ query'.orderBy.direction = "DESC" => order >= 0
                           /\ order = 0 =>
                                 IndexOf(input, output[i]) < IndexOf(input, output[j])]_vars

\* SELECT * FROM t ORDER BY e DESC on a table whose rows hold 'a', 'b', 'a' in e
\* returned the second row, then the first, then the third.
C32_Witness ==
    /\ query = SelectOrdered("t", <<"*">>, NoWhere, OrderBy("e", "DESC"), NoLimit)
    /\ result.success
    /\ Len(result.data) = 3
    /\ result.data[1] = GetTable(tables, "t").rows[2]
    /\ result.data[2] = GetTable(tables, "t").rows[1]
    /\ result.data[3] = GetTable(tables, "t").rows[3]
    /\ result.data[1]["e"] = StrV(<<"b">>)
    /\ result.data[2]["e"] = StrV(<<"a">>)
    /\ result.data[3]["e"] = StrV(<<"a">>)

-----------------------------------------------------------------------------
(* LIKE                                                                    *)

\* The match the LIKE operator is to compute: the whole string against the whole
\* pattern, '%' any run of characters, '_' any one character, any other pattern
\* character itself, letters without regard to case.
RECURSIVE SqlLike(_, _)
SqlLike(str, pat) ==
    IF pat = <<>> THEN str = <<>>
    ELSE IF Head(pat) = "%"
    THEN \E j \in 0..Len(str) : SqlLike(SubSeq(str, j + 1, Len(str)), Tail(pat))
    ELSE /\ str # <<>>
         /\ (Head(pat) = "_" \/ Folded(Head(str)) = Folded(Head(pat)))
         /\ SqlLike(Tail(str), Tail(pat))

\* C25: a SELECT ... WHERE c LIKE p returns exactly the rows whose cell c is a
\* string that matches the string p as a whole, case-insensitively, with '%' for
\* any run of characters, '_' for any one character and every other pattern
\* character for itself; it returns no row when the cell or p is no string.
C25_LikeMatchesWholeValue ==
    [][(/\ query'.type = "SELECT" /\ result'.success /\ Len(query'.where.conds) = 1
        /\ query'.where.conds[1].operator = "LIKE")
          => result'.data
                = SelectSeq(GetTable(tables, query'.tableName).rows,
                            LAMBDA row :
                                LET value == Cell(row, query'.where.conds[1].column)
                                    pattern == query'.where.conds[1].value
                                IN /\ value.k = "string" /\ pattern.k = "string"
                                   /\ SqlLike(value.s, pattern.s))]_vars

-----------------------------------------------------------------------------
(* DELETE                                                                  *)

\* The (key, position) pairs a tree holds, over all its nodes.
RECURSIVE Entries(_)
Entries(node) ==
    UNION {{<<node.keys[j], node.rowIndices[j][h]>> : h \in 1..Len(node.rowIndices[j])} :
              j \in 1..Len(node.keys)}
      \cup UNION {Entries(node.children[j]) : j \in 1..Len(node.children)}

\* C26: a successful DELETE removes the rows that satisfy WHERE (all rows without
\* WHERE) and keeps the others in their order, reports the number removed, and
\* leaves every index of the table holding exactly the pairs (value of a
\* surviving row, that row's new position), each found by searchIndex, whatever
\* the index held before.
C26_DeleteRemovesRowsAndRebuildsIndexes ==
    [][(query'.type = "DELETE" /\ result'.success) =>
          LET before == GetTable(tables, query'.tableName)
              after == GetTable(tables', query'.tableName)
          IN /\ after.rows = SelectSeq(before.rows,
                                       LAMBDA row : ~(query'.where = NoWhere
                                                        \/ Holds(row, query'.where)))
             /\ result'.affectedRows = Len(before.rows) - Len(after.rows)
             /\ \A j \in 1..Len(after.indexes) :
                   LET c == after.indexes[j].columnName IN
                   /\ Entries(after.indexes[j].root)
                         = {<<Cell(after.rows[p], c), p - 1>> : p \in 1..Len(after.rows)}
                   /\ \A p \in 1..Len(after.rows) :
                         searchIndex(after.indexes[j], Cell(after.rows[p], c)) = <<p - 1>>]_vars

-----------------------------------------------------------------------------
(* The index module                                                        *)

\* C27: on a unique index filled by insertIntoIndex from empty, every accepted
\* insertIntoIndex(v, p) makes searchIndex(v) return [p] from [] and changes the
\* answer for no other value, so that searchIndex(v) is [p] for the pairs
\* inserted and [] for every other value; an insertIntoIndex of a value the
\* index holds is refused and leaves the tree as it is.
C27_UniqueIndexFindsWhatWasInserted ==
    [][/\ \A v \in UqKeys :
             LET r == insertIntoIndex(btreeIndex, v, UqRowOf(v)) IN
             (r.ok /\ btreeIndex' = r.index) =>
                 /\ searchIndex(btreeIndex, v) = <<>>
                 /\ searchIndex(btreeIndex', v) = <<UqRowOf(v)>>
                 /\ \A w \in UqKeys \ {v} :
                       searchIndex(btreeIndex', w) = searchIndex(btreeIndex, w)
       /\ \A v \in UqKeys :
             <<v, UqRowOf(v)>> \in Entries(btreeIndex'.root) =>
                 \A p \in 0..UqMaxKey :
                     insertIntoIndex(btreeIndex', v, p) = [ok |-> FALSE, index |-> btreeIndex']
      ]_vars

\* Every node holds at most ORDER - 1 keys and as many posting lists as keys; a
\* leaf has no children, another node one child more than keys.
RECURSIVE NodesWellFormed(_)
NodesWellFormed(node) ==
    /\ Len(node.keys) <= ORDER - 1
    /\ Len(node.rowIndices) = Len(node.keys)
    /\ IF node.isLeaf THEN node.children = <<>>
       ELSE /\ Len(node.children) = Len(node.keys) + 1
            /\ Len(node.children) <= ORDER
            /\ \A j \in 1..Len(node.children) : NodesWellFormed(node.children[j])

\* The depths at which the leaves below a node sit, the node being at depth d.
RECURSIVE LeafDepths(_, _)
LeafDepths(node, d) ==
    IF node.isLeaf \/ node.children = <<>> THEN {d}
    ELSE UNION {LeafDepths(node.children[j], d + 1) : j \in 1..Len(node.children)}

\* The keys of a tree in in-order: child 1, key 1, child 2, key 2, ..., last child.
RECURSIVE InOrder(_)
InOrder(node) ==
    LET upTo[j \in 0..Len(node.keys)] ==
            IF j = 0 THEN <<>>
            ELSE upTo[j - 1]
                   \o (IF j <= Len(node.children) THEN InOrder(node.children[j]) ELSE <<>>)
                   \o <<node.keys[j]>>
    IN upTo[Len(node.keys)]
         \o (IF Len(node.children) > Len(node.keys)
             THEN InOrder(node.children[Len(node.keys) + 1]) ELSE <<>>)

\* C28: after any sequence of insertIntoIndex calls on an empty index the tree is
\* a well-formed B-tree of order 4: node sizes and child counts as above, all
\* leaves at one depth, and the keys in in-order strictly increasing under
\* compareValues.
C28_TreeIsAWellFormedBTree ==
    /\ NodesWellFormed(btreeIndex.root)
    /\ Cardinality(LeafDepths(btreeIndex.root, 0)) = 1
    /\ \A j \in 1..(Len(InOrder(btreeIndex.root)) - 1) :
          compareValues(InOrder(btreeIndex.root)[j], InOrder(btreeIndex.root)[j + 1]) < 0

\* C30: on a non-unique index every insertIntoIndex(v, p) appends p to what
\* searchIndex(v) returns and changes the answer for no other value, so that
\* searchIndex(v) is the positions inserted under v in insertion order; and no
\* value is a key of the tree twice.
C30_SharedIndexCollectsPositionsInOrder ==
    [][/\ \A v \in ShKeys, p \in 0..ShMaxPos :
             btreeIndex' = insertIntoIndex(btreeIndex, v, p).index =>
                 /\ searchIndex(btreeIndex', v) = Append(searchIndex(btreeIndex, v), p)
                 /\ \A w \in ShKeys \ {v} :
                       searchIndex(btreeIndex', w) = searchIndex(btreeIndex, w)
       /\ \A i, j \in 1..Len(InOrder(btreeIndex'.root)) :
             InOrder(btreeIndex'.root)[i] = InOrder(btreeIndex'.root)[j] => i = j
      ]_vars

\* C29: a removeFromIndex(v, p) that changes the index takes p out of what
\* searchIndex(v) returns and leaves what searchIndex returns for every other
\* value as it was, also when v was a key of a non-leaf node.
C29_RemovalTouchesOneMembership ==
    [][\A v \in RmKeys :
          btreeIndex' = removeFromIndex(btreeIndex, v, UqRowOf(v)) =>
              /\ ~Includes(searchIndex(btreeIndex', v), UqRowOf(v))
              /\ \A w \in RmKeys \ {v} :
                    searchIndex(btreeIndex', w) = searchIndex(btreeIndex, w)]_vars

------------------------------------------------------------------------------
(* The order of cell values                                                *)

\* The keys a tree holds, over all its nodes.
KeysOf(node) == {entry[1] : entry \in Entries(node)}

Sign(n) == IF n < 0 THEN -1 ELSE IF n > 0 THEN 1 ELSE 0

\* C31: compareValues is a total order on the keys an index holds (NULL, integers,
\* strings, numeric-looking strings among them): comparing b with a gives the
\* opposite sign of comparing a with b, a <= b and b <= c give a <= c, two keys
\* compare equal only when they are the same value, and NULL equals NULL and is
\* below every other value.
C31_CompareValuesIsATotalOrder ==
    \A a \in KeysOf(btreeIndex.root) : \A b \in KeysOf(btreeIndex.root) :
        /\ Sign(compareValues(a, b)) = -Sign(compareValues(b, a))
        /\ compareValues(a, b) = 0 => a = b
        /\ a = Null => (IF b = Null THEN compareValues(a, b) = 0
                        ELSE compareValues(a, b) < 0)
        /\ \A c \in KeysOf(btreeIndex.root) :
              (compareValues(a, b) <= 0 /\ compareValues(b, c) <= 0)
                  => compareValues(a, c) <= 0

------------------------------------------------------------------------------
(* Rejected statements                                                     *)

\* The errors of an INSERT that is rejected while its row is built.
RowErrors == {"Column count does not match value count", "Column does not exist",
              "Invalid type for column", "Column cannot be NULL"}

\* C33: a statement that fails before any mutation step leaves the catalog as it
\* was (the tables, each with its schema, rows, indexes and counter): input that
\* does not parse, a statement on a table that does not exist, and an INSERT
\* rejected for its column/value counts, an unknown column, a value of the wrong
\* type or too long, or a NULL or missing value for a NOT NULL column.
C33_RejectedStatementChangesNothing ==
    [][(~result'.success
          /\ \/ result'.error = "Unsupported SQL statement"
             \/ result'.error = "Table does not exist"
             \/ query'.type = "INSERT" /\ result'.error \in RowErrors)
       => tables' = tables]_vars

\* INSERT INTO t (f) VALUES (1) was rejected for the missing e on a table that holds
\* a row and whose counter has moved.
C33_Witness ==
    /\ query = InsertStmt("t", <<"f">>, <<IntV(1)>>)
    /\ ~result.success /\ result.error = "Column cannot be NULL"
    /\ HasTable(tables, "t")
    /\ Len(GetTable(tables, "t").rows) = 1
    /\ GetTable(tables, "t").autoIncrement = 2

\* C34: for a column e VARCHAR(L), L >= 0, an INSERT of a string into e is accepted
\* when the string has at most L characters and rejected otherwise; with L = 0
\* every string but the empty one is rejected.
C34_VarcharLengthIsEnforced ==
    [][(query'.type = "INSERT" /\ HasTable(tables, query'.tableName)
            /\ query'.columns = <<"e">> /\ query'.values[1].k = "string")
       => (result'.success
              <=> Len(query'.values[1].s)
                      <= FindColumn(GetTable(tables, query'.tableName).schema, "e").maxLength)]_vars

------------------------------------------------------------------------------
(* Frame conditions                                                        *)

\* C35: SELECT is read-only.  A SELECT, with or without joins, WHERE, ORDER BY,
\* LIMIT and a column list, successful or not, leaves the set of tables and every
\* table's rows (contents and order), indexes and counter as they were.
C35_SelectChangesNothing ==
    [][query'.type = "SELECT" => tables' = tables]_vars

\* SELECT id FROM t WHERE id > 1 ORDER BY e ASC LIMIT 1 returned the third row's
\* id, the table holding three rows of which the third sorts before the second.
C35_Witness ==
    /\ query = SelectOrdered("t", <<"id">>, Where1(WhC), OrderBy("e", "ASC"), 1)
    /\ result.success
    /\ result.data = <<[id |-> IntV(3)]>>
    /\ Len(GetTable(tables, "t").rows) = 3
    /\ GetTable(tables, "t").rows[2]["e"] = StrV(<<"b">>)
    /\ GetTable(tables, "t").rows[3]["e"] = StrV(<<"a">>)

\* C36: a statement affects at most the table it names.  After an INSERT, UPDATE,
\* DELETE, DROP or CREATE naming table A every other table is there exactly when
\* it was there before, with the same schema, rows, indexes and counter; and a
\* statement that is not a CREATE or a DROP leaves the table names as they were.
C36_StatementTouchesOnlyItsTable ==
    [][/\ query'.type \in {"CREATE", "INSERT", "UPDATE", "DELETE", "DROP"} =>
            \A B \in TwNames \ {query'.tableName} :
                /\ HasTable(tables', B) <=> HasTable(tables, B)
                /\ HasTable(tables, B) => GetTable(tables', B) = GetTable(tables, B)
       /\ query'.type \notin {"CREATE", "DROP"} =>
            getTableNames(tables') = getTableNames(tables)]_vars

\* DROP TABLE t succeeded while u held two rows, and u holds them still.
C36_Witness ==
    /\ query = Statement("DROP", "t") /\ result.success
    /\ ~HasTable(tables, "t")
    /\ HasTable(tables, "u")
    /\ Len(GetTable(tables, "u").rows) = 2

------------------------------------------------------------------------------
(* NULL in a unique column                                                 *)

\* The positions of the rows of a table that hold NULL in column c.
NullsIn(table, c) == {p \in 1..Len(table.rows) : Cell(table.rows[p], c) = Null}

\* The statement gives column c no value or the value NULL.
GivesNull(sql, c) ==
    \/ ~Includes(sql.columns, c)
    \/ sql.values[IndexOf(sql.columns, c) + 1] = Null

\* C37: the unique index treats NULL as an ordinary key.  In a table whose column
\* e is UNIQUE and not the primary key, once a row holds NULL in e an INSERT that
\* gives e NULL or no value is rejected with the duplicate-value error; so after
\* any INSERT at most one row holds NULL in e.
C37_UniqueColumnHoldsOneNull ==
    [][(query'.type = "INSERT" /\ HasTable(tables, query'.tableName)) =>
          /\ (NullsIn(GetTable(tables, query'.tableName), "e") # {} /\ GivesNull(query', "e"))
                => (~result'.success
                      /\ result'.error = "Duplicate value for unique column")
          /\ Cardinality(NullsIn(GetTable(tables', query'.tableName), "e")) <= 1]_vars

\* INSERT INTO t (id) VALUES (2) was rejected as a duplicate while the one row of
\* the table has the key 1 and NULL in e.
C37_Witness ==
    /\ query = InsertStmt("t", <<"id">>, <<IntV(2)>>)
    /\ ~result.success /\ result.error = "Duplicate value for unique column"
    /\ HasTable(tables, "t")
    /\ Len(GetTable(tables, "t").rows) = 1
    /\ GetTable(tables, "t").rows[1] = [id |-> IntV(1), e |-> Null]

------------------------------------------------------------------------------
(* Keys given and keys taken from the counter                              *)

\* The INSERT is issued again and again until it succeeds: the number of rejected
\* attempts, n counting those so far (given up after KyMaxAuto + KyMaxRows).
RECURSIVE RejectedAttempts(_, _, _)

AttemptsAfter(out, sql, n) ==
    IF out.result.success THEN n ELSE RejectedAttempts(out.tables, sql, n + 1)

RejectedAttempts(tbls, sql, n) ==
    IF n > KyMaxAuto + KyMaxRows THEN n ELSE AttemptsAfter(execute(tbls, sql), sql, n)

\* Some row of the table holds the value in column c.
Holding(table, c, value) ==
    \E p \in 1..Len(table.rows) : Cell(table.rows[p], c) = value

\* C38: an INSERT that gives an integer primary key and succeeds leaves the
\* counter where it was; an INSERT that omits the key is rejected as a duplicate
\* when a row holds the counter's value, and the counter moves on by one all the
\* same; so an INSERT that omits the key and whose value for e no row holds,
\* issued again and again, succeeds after at most as many rejected attempts as
\* the table has rows.
C38_CounterCatchesUpWithGivenKeys ==
    [][(query'.type = "INSERT" /\ HasTable(tables, query'.tableName)) =>
          \A table \in {GetTable(tables, query'.tableName)} :
          \A after \in {GetTable(tables', query'.tableName)} :
              /\ (Includes(query'.columns, "id") /\ result'.success)
                    => after.autoIncrement = table.autoIncrement
              /\ (~Includes(query'.columns, "id")
                    /\ Holding(table, "id", IntV(table.autoIncrement)))
                    => /\ ~result'.success
                       /\ result'.error = "Duplicate value for unique column"
                       /\ after.autoIncrement = table.autoIncrement + 1
              /\ (query'.columns = <<"e">> /\ ~Holding(table, "e", query'.values[1]))
                    => RejectedAttempts(tables, query', 0) <= Len(table.rows)]_vars

------------------------------------------------------------------------------
(* The life of a table                                                     *)

\* The table has no row, the counter 1 and, for each column that is PRIMARY KEY or
\* UNIQUE and for no other, one unique index, which is empty.
Fresh(table) ==
    /\ table.rows = <<>>
    /\ table.autoIncrement = 1
    /\ \A j \in 1..Len(table.schema.columns) :
          LET col == table.schema.columns[j]
          IN Cardinality({h \in 1..Len(table.indexes) :
                              table.indexes[h].columnName = col.name})
                 = IF col.primaryKey \/ col.unique THEN 1 ELSE 0
    /\ \A h \in 1..Len(table.indexes) :
          /\ HasColumn(table.schema, table.indexes[h].columnName)
          /\ table.indexes[h].unique
          /\ Entries(table.indexes[h].root) = {}
          /\ table.indexes[h].root.isLeaf

\* C39: the life of a table.  A successful CREATE TABLE leaves its table fresh,
\* whatever a table of that name held before it was dropped; a successful DROP
\* TABLE takes the table away; and while a table is away every INSERT, SELECT,
\* UPDATE, DELETE and DROP naming it fails with the table-does-not-exist error and
\* leaves it away.
C39_TableLifecycle ==
    [][/\ (query'.type = "CREATE" /\ result'.success) =>
             /\ HasTable(tables', query'.tableName)
             /\ Fresh(GetTable(tables', query'.tableName))
       /\ (query'.type = "DROP" /\ result'.success) => ~HasTable(tables', query'.tableName)
       /\ (query'.type \in {"INSERT", "SELECT", "UPDATE", "DELETE", "DROP"}
             /\ ~HasTable(tables, query'.tableName)) =>
             /\ ~result'.success
             /\ result'.error = "Table does not exist"
             /\ ~HasTable(tables', query'.tableName)]_vars

\* CREATE TABLE u succeeded and u is fresh, while t holds two rows and a counter
\* that has been used three times.
C39_Witness ==
    /\ query = CreateStmt("u", TColumns) /\ result.success
    /\ HasTable(tables, "u") /\ Fresh(GetTable(tables, "u"))
    /\ HasTable(tables, "t")
    /\ Len(GetTable(tables, "t").rows) = 2
    /\ GetTable(tables, "t").autoIncrement = 3

====
